---- MODULE Spec2Model ----
(***************************************************************************)
(* Model of the network-area-diagram viewer of powsybl-network-viewer:     *)
(* the interaction controller (select / drag / bend / straighten / hover), *)
(* the bend-point bookkeeping and the branch state patch API.              *)
(*                                                                         *)
(* Coordinates are integers counted in units of 0.005 diagram units, so    *)
(* that the rounding to 2 decimals done by the code (DiagramUtils.round)   *)
(* is a real operation: a value is "rounded" when it is even.              *)
(* A JavaScript null / undefined element reference is the string "null".   *)
(***************************************************************************)
EXTENDS Integers, Sequences, FiniteSets, TLC

(***************************************************************************)
(* Bounds of the model                                                     *)
(***************************************************************************)
\* largest number of bend points (hence of live bend handles) over all edges
MaxHandles == 4
\* longest sequence of events explored
MaxEvents == 5

Null == "null"

(***************************************************************************)
(* Geometry primitives                                                     *)
(***************************************************************************)
Point(x, y) == <<x, y>>
Origin == Point(0, 0)

\* DiagramUtils.round: Math.round(num * 100) / 100, ties towards +infinity
Round(v) == 2 * ((v + 1) \div 2)
RoundPoint(p) == Point(Round(p[1]), Round(p[2]))

\* DiagramUtils.getFormattedValue / getFormattedPoint: toFixed(2), read back
\* as the number the "translate(x,y)" attribute holds
FormattedValue(v) == 2 * ((v + 1) \div 2)
FormattedPoint(p) == Point(FormattedValue(p[1]), FormattedValue(p[2]))

Sq(v) == v * v

\* squared DiagramUtils.getDistance
SqDistance(p, q) == Sq(p[1] - q[1]) + Sq(p[2] - q[2])

(***************************************************************************)
(* MetadataUtils.getSquareDistanceFromSegment, as an exact fraction        *)
(* [nan, n, d] (value n/d, d > 0); nan is the NaN the code computes for a  *)
(* zero-length segment (0/0).                                              *)
(***************************************************************************)
getSquareDistanceFromSegment(p, a, b) ==
    LET dx == b[1] - a[1]
        dy == b[2] - a[2]
        den == Sq(dx) + Sq(dy)
        num == (p[1] - a[1]) * dx + (p[2] - a[2]) * dy
        \* for 0 <= param <= 1 the code's distX^2 + distY^2, with
        \* distX = (p.x - a.x) - param * dx and param = num / den, is
        \* ((p - a) x (b - a))^2 / den
        cross == (p[1] - a[1]) * dy - (p[2] - a[2]) * dx
    IN  IF den = 0 THEN [nan |-> TRUE, n |-> 0, d |-> 1]
        ELSE IF num < 0 THEN [nan |-> FALSE, n |-> SqDistance(p, a), d |-> 1]
        ELSE IF num > den THEN [nan |-> FALSE, n |-> SqDistance(p, b), d |-> 1]
        ELSE [nan |-> FALSE, n |-> Sq(cross), d |-> den]

\* distance < minDistance of addPointToList; min.inf is Number.MAX_VALUE
DistanceLess(dist, min) ==
    /\ ~dist.nan
    /\ \/ min.inf
       \/ dist.n * min.d < min.n * dist.d

\* the loop of addPointToList over chain = node1, points..., node2
RECURSIVE NearestSegment(_, _, _, _, _)
NearestSegment(chain, bendPoint, i, min, index) ==
    IF i > Len(chain) - 1 THEN index
    ELSE LET dist == getSquareDistanceFromSegment(bendPoint, chain[i], chain[i + 1])
         IN  IF DistanceLess(dist, min)
             THEN NearestSegment(chain, bendPoint, i + 1,
                                 [inf |-> FALSE, n |-> dist.n, d |-> dist.d], i - 1)
             ELSE NearestSegment(chain, bendPoint, i + 1, min, index)

InsertAt(seq, i, x) == SubSeq(seq, 1, i) \o <<x>> \o SubSeq(seq, i + 1, Len(seq))
RemoveAt(seq, i) == SubSeq(seq, 1, i) \o SubSeq(seq, i + 2, Len(seq))

\* a bendingPoints value: undefined, or a list of points
Undefined == [def |-> FALSE, pts |-> <<>>]
List(pts) == [def |-> TRUE, pts |-> pts]

\* Array.prototype.splice(start, 1): a negative start counts from the end
Splice1(pts, start) ==
    LET from == IF start < 0 THEN (IF Len(pts) + start < 0 THEN 0 ELSE Len(pts) + start)
                ELSE (IF start > Len(pts) THEN Len(pts) ELSE start)
    IN  RemoveAt(pts, from)

\* MetadataUtils.addPointToList: index is 0-based as in the code
addPointToList(pointsMetadata, node1, node2, bendPoint) ==
    IF ~pointsMetadata.def
    THEN [linePoints |-> List(<<bendPoint>>), index |-> 0]
    ELSE LET chain == <<node1>> \o pointsMetadata.pts \o <<node2>>
             index == NearestSegment(chain, bendPoint, 1, [inf |-> TRUE, n |-> 0, d |-> 1], 0)
         IN  [linePoints |-> List(InsertAt(pointsMetadata.pts, index, RoundPoint(bendPoint))),
              index |-> index]

(***************************************************************************)
(* The metadata document and the rendered SVG the viewer is built with.    *)
(* The SVG is the one rendered from the metadata: every node and edge of   *)
(* the metadata has its element, with the node elements under the          *)
(* nad-vl-nodes group and the edge elements under nad-branch-edges.        *)
(***************************************************************************)
Nodes == {"vl1", "vl2", "vl3"}

\* string order of the node svgIds, as used by "<" on strings
NodeRank ==
    [n \in Nodes \cup {"vl9"} |->
        CASE n = "vl1" -> 1 [] n = "vl2" -> 2 [] n = "vl3" -> 3 [] n = "vl9" -> 4]

NodeEquipmentId == [n \in Nodes |-> CASE n = "vl1" -> "VL1" [] n = "vl2" -> "VL2" [] n = "vl3" -> "VL3"]

InitialNodePosition ==
    [n \in Nodes |-> CASE n = "vl1" -> Point(0, 0) [] n = "vl2" -> Point(20, 0) [] n = "vl3" -> Point(0, 20)]

\* diagramMetadata.edges, in document order
EdgeOrder == <<"e1", "e2", "e3", "e4", "e5", "e6">>
Edges == {EdgeOrder[i] : i \in 1..Len(EdgeOrder)}

EdgeMetadata ==
    [e \in Edges |->
        CASE e = "e1" -> [equipmentId |-> "L1", node1 |-> "vl1", node2 |-> "vl2", type |-> "LineEdge",
                          invisible1 |-> FALSE, invisible2 |-> FALSE]
          [] e = "e2" -> [equipmentId |-> "L2", node1 |-> "vl1", node2 |-> "vl3", type |-> "LineEdge",
                          invisible1 |-> FALSE, invisible2 |-> FALSE]
          [] e = "e3" -> [equipmentId |-> "T1", node1 |-> "vl2", node2 |-> "vl3", type |-> "TwoWtEdge",
                          invisible1 |-> FALSE, invisible2 |-> FALSE]
          [] e = "e4" -> [equipmentId |-> "L3", node1 |-> "vl3", node2 |-> "vl2", type |-> "LineEdge",
                          invisible1 |-> FALSE, invisible2 |-> FALSE]
          [] e = "e5" -> [equipmentId |-> "L4", node1 |-> "vl1", node2 |-> "vl1", type |-> "LineEdge",
                          invisible1 |-> FALSE, invisible2 |-> FALSE]
          \* a half-visible line: its node2 is not part of the diagram
          [] e = "e6" -> [equipmentId |-> "L5", node1 |-> "vl2", node2 |-> "vl9", type |-> "LineEdge",
                          invisible1 |-> FALSE, invisible2 |-> TRUE]]

\* diagramMetadata.textNodes: the legend of vl1
TextNodes == {"t1"}

TextNodeMetadata == [t \in TextNodes |-> [equipmentId |-> "VL1", vlNode |-> "vl1"]]

\* NodeMetadata.legendSvgId
NodeLegendSvgId == [n \in Nodes |-> IF n = "vl1" THEN "t1" ELSE Null]

InitialTextNodes ==
    [t \in TextNodes |->
        [shiftX |-> 10, shiftY |-> -6, connectionShiftX |-> 10, connectionShiftY |-> -2]]

\* DOM: scrollWidth and scrollHeight of the legend box
TextNodeSize == [width |-> 400, height |-> 200]

\* the half-visible edges of the document, and their polyline as rendered
HalfVisibleEdges == {e \in Edges : EdgeMetadata[e].invisible1 \/ EdgeMetadata[e].invisible2}

InitialPolylines == [e \in HalfVisibleEdges |-> <<Point(20, 5500), Point(20, 9000)>>]

\* toFixed(0) of a length in px, read back as a number: ties away from zero
ToFixed0(v) == IF v >= 0 THEN 200 * ((v + 100) \div 200) ELSE -(200 * ((100 - v) \div 200))

\* updateTextNodePosition / SvgUtils.getTextNodePosition
TextPositionOf(point) == Point(ToFixed0(point[1]), ToFixed0(point[2]))

InitialTextPosition ==
    [t \in TextNodes |->
        TextPositionOf(Point(InitialNodePosition[TextNodeMetadata[t].vlNode][1] + InitialTextNodes[t].shiftX,
                             InitialNodePosition[TextNodeMetadata[t].vlNode][2] + InitialTextNodes[t].shiftY))]

BusNodes == {"b1", "b2", "b3", "b4"}

BusNodeMetadata ==
    [b \in BusNodes |->
        CASE b = "b1" -> [equipmentId |-> "B1", vlNode |-> "vl1", nbNeighbours |-> 1, index |-> 0]
          [] b = "b2" -> [equipmentId |-> "B2", vlNode |-> "vl1", nbNeighbours |-> 1, index |-> 1]
          [] b = "b3" -> [equipmentId |-> "B3", vlNode |-> "vl2", nbNeighbours |-> 0, index |-> 0]
          [] b = "b4" -> [equipmentId |-> "B4", vlNode |-> "vl3", nbNeighbours |-> 0, index |-> 0]]

\* EdgeTypeMapping of metadata-utils
EdgeTypeMapping ==
    [t \in {"LineEdge", "TwoWtEdge", "PstEdge", "HvdcLineVscEdge", "HvdcLineLccEdge",
            "DanglingLineEdge", "TieLineEdge", "ThreeWtEdge", "ThreeWtPstEdge"} |->
        CASE t = "LineEdge" -> "LINE"
          [] t = "TwoWtEdge" -> "TWO_WINDINGS_TRANSFORMER"
          [] t = "PstEdge" -> "PHASE_SHIFT_TRANSFORMER"
          [] t = "HvdcLineVscEdge" -> "HVDC_LINE_VSC"
          [] t = "HvdcLineLccEdge" -> "HVDC_LINE_LCC"
          [] t = "DanglingLineEdge" -> "DANGLING_LINE"
          [] t = "TieLineEdge" -> "TIE_LINE"
          [] t = "ThreeWtEdge" -> "THREE_WINDINGS_TRANSFORMER"
          [] t = "ThreeWtPstEdge" -> "THREE_WINDINGS_PHASE_SHIFT_TRANSFORMER"]

\* MetadataUtils.getEdgeType on a type string; "undefined" is the result of
\* indexing EdgeTypeMapping with a string that is not one of its keys
getEdgeType(type) ==
    IF type = Null THEN "UNKNOWN"
    ELSE IF type \in DOMAIN EdgeTypeMapping THEN EdgeTypeMapping[type]
    ELSE "undefined"

\* MetadataUtils.getStringEdgeType: EdgeType[getEdgeType(edge)]
getStringEdgeType(e) == getEdgeType(EdgeMetadata[e].type)

\* MetadataUtils.getGroupedEdgesIndexKey: the smaller id, "_", the larger id
getGroupedEdgesIndexKey(e) ==
    LET n1 == EdgeMetadata[e].node1
        n2 == EdgeMetadata[e].node2
    IN  IF NodeRank[n1] < NodeRank[n2] THEN <<n1, "_", n2>> ELSE <<n2, "_", n1>>

\* MetadataUtils.getInvisibleSide
getInvisibleSide(e) ==
    IF EdgeMetadata[e].invisible1 THEN "1"
    ELSE IF EdgeMetadata[e].invisible2 THEN "2"
    ELSE Null

\* MetadataUtils.getBendableLines: the lines of the document, in order
RECURSIVE SelectEdges(_, _)
SelectEdges(seq, keep) ==
    IF seq = <<>> THEN <<>>
    ELSE (IF Head(seq) \in keep THEN <<Head(seq)>> ELSE <<>>) \o SelectEdges(Tail(seq), keep)

getBendableLines ==
    LET grouped == {e \in Edges : EdgeMetadata[e].node1 # EdgeMetadata[e].node2}
        group(e) == {f \in grouped : getGroupedEdgesIndexKey(f) = getGroupedEdgesIndexKey(e)}
        lines == {e \in grouped :
                    /\ Cardinality(group(e)) = 1
                    /\ getEdgeType(EdgeMetadata[e].type) = "LINE"
                    /\ getInvisibleSide(e) = Null}
    IN  SelectEdges(EdgeOrder, lines)

(***************************************************************************)
(* Geometry of the half-edges.  Lengths are whole numbers of units of      *)
(* 0.005, angles whole degrees; a square root, a quotient and a cosine are *)
(* taken to the nearest unit, and are exact for the axis-parallel and      *)
(* 3-4-5 inputs the specifications use.                                    *)
(***************************************************************************)
\* diagramMetadata.svgParameters, with the values of the defaults
SvgParameters ==
    [voltageLevelCircleRadius |-> 6000, fictitiousVoltageLevelCircleRadius |-> 3000,
     interAnnulusSpace |-> 1000, transformerCircleRadius |-> 4000,
     edgesForkAperture |-> 60, edgesForkLength |-> 16000,
     unknownBusNodeExtraRadius |-> 2000]

\* diagramMetadata.layoutParameters
LayoutParameters == [textNodeEdgeConnectionYShift |-> 2]

\* an absent Point (Point | null, Point | undefined)
NoPoint == <<>>

\* the Point whose coordinates are NaN: no arithmetic applies to it
NaNPoint == <<"NaN">>
IsNaNPoint(p) == p = NaNPoint

RECURSIVE SqrtSearch(_, _, _)
SqrtSearch(n, lo, hi) ==
    IF lo >= hi THEN lo
    ELSE LET mid == (lo + hi + 1) \div 2
         IN  IF mid * mid <= n THEN SqrtSearch(n, mid, hi) ELSE SqrtSearch(n, lo, mid - 1)

\* Math.sqrt to the nearest unit
Sqrt(n) ==
    LET f == SqrtSearch(n, 0, 46340)
    IN  IF n - f * f > f THEN f + 1 ELSE f

\* a / b to the nearest unit, b > 0
RoundDiv(a, b) == (2 * a + b) \div (2 * b)

\* DiagramUtils.getDistance
getDistance(point1, point2) == Sqrt(SqDistance(point1, point2))

\* DiagramUtils.getMidPosition
getMidPosition(point1, point2) ==
    IF IsNaNPoint(point1) \/ IsNaNPoint(point2) THEN NaNPoint
    ELSE Point((point1[1] + point2[1]) \div 2, (point1[2] + point2[2]) \div 2)

\* DiagramUtils.getPointAtDistance: radius / 0 is Infinity or NaN, and its
\* product with the zero difference of the coordinates is NaN
getPointAtDistance(point1, point2, radius) ==
    IF IsNaNPoint(point1) \/ IsNaNPoint(point2) THEN NaNPoint
    ELSE
    LET distance == getDistance(point1, point2)
    IN  IF distance = 0 THEN NaNPoint
        ELSE Point(point1[1] + RoundDiv(radius * (point2[1] - point1[1]), distance),
                   point1[2] + RoundDiv(radius * (point2[2] - point1[2]), distance))

\* 10000 * cos of 0, 5, ..., 90 degrees
CosTable ==
    <<10000, 9962, 9848, 9659, 9397, 9063, 8660, 8192, 7660, 7071,
      6428, 5736, 5000, 4226, 3420, 2588, 1736, 872, 0>>

\* an angle in degrees brought into 0..359
NormDeg(a) == a % 360

\* 10000 * Math.cos / Math.sin of a multiple of 5 degrees
Cos(a) ==
    LET d == NormDeg(a)
    IN  IF d <= 90 THEN CosTable[d \div 5 + 1]
        ELSE IF d <= 180 THEN -CosTable[(180 - d) \div 5 + 1]
        ELSE IF d <= 270 THEN -CosTable[(d - 180) \div 5 + 1]
        ELSE CosTable[(360 - d) \div 5 + 1]

Sin(a) == Cos(a - 90)

\* DiagramUtils.getAngle = Math.atan2(dy, dx), in degrees in -180..180: exact
\* on the eight principal directions, else the nearest multiple of 5
getAngle(point1, point2) ==
    LET dx == point2[1] - point1[1]
        dy == point2[2] - point1[2]
        steps == {5 * k : k \in -35..36}
        proj(a) == dx * Cos(a) + dy * Sin(a)
    IN  IF dx = 0 /\ dy = 0 THEN 0
        ELSE IF dy = 0 THEN (IF dx > 0 THEN 0 ELSE 180)
        ELSE IF dx = 0 THEN (IF dy > 0 THEN 90 ELSE -90)
        ELSE IF dx = dy THEN (IF dx > 0 THEN 45 ELSE -135)
        ELSE IF dx = -dy THEN (IF dx > 0 THEN -45 ELSE 135)
        ELSE CHOOSE a \in steps : \A b \in steps : proj(a) >= proj(b)

\* DiagramUtils.getEdgeFork
getEdgeFork(point, edgeForkLength, angleFork) ==
    Point(point[1] + RoundDiv(edgeForkLength * Cos(angleFork), 10000),
          point[2] + RoundDiv(edgeForkLength * Sin(angleFork), 10000))

\* DiagramUtils.isTransformerEdge
isTransformerEdge(edgeType) ==
    edgeType \in {"TWO_WINDINGS_TRANSFORMER", "PHASE_SHIFT_TRANSFORMER"}

\* DiagramUtils.getVoltageLevelCircleRadius
getVoltageLevelCircleRadius(nbNeighbours, fictitiousVl) ==
    LET voltageLevelCircleRadius ==
            IF fictitiousVl THEN SvgParameters.fictitiousVoltageLevelCircleRadius
            ELSE SvgParameters.voltageLevelCircleRadius
        n == IF nbNeighbours + 1 > 1 THEN nbNeighbours + 1 ELSE 1
    IN  (IF n < 2 THEN n ELSE 2) * voltageLevelCircleRadius

\* DiagramUtils.getTextEdgeEnd; the angle of the legend box seen from the
\* node is compared with 60, 175, -70 and -155 degrees through the tangents
\* of 60, 5, 70 and 25 degrees, to 3 decimals
getTextEdgeEnd(textNodePosition, vlNodePosition, detailedTextNodeYShift, height, width) ==
    LET dx == textNodePosition[1] - vlNodePosition[1]
        dy == textNodePosition[2] - vlNodePosition[2]
        below == /\ dy > 0
                 /\ \/ dx = 0
                    \/ dx > 0 /\ dy * 1000 > 1732 * dx
                    \/ dx < 0 /\ dy * 1000 > 87 * (-dx)
        above == /\ dy < 0
                 /\ \/ dx = 0
                    \/ dx > 0 /\ (-dy) * 1000 > 2747 * dx
                    \/ dx < 0 /\ (-dy) * 1000 > 466 * (-dx)
        left == /\ dx < 0
                /\ \/ dy >= 0 /\ dy * 1000 <= 87 * (-dx)
                   \/ dy < 0 /\ (-dy) * 1000 <= 466 * (-dx)
    IN  IF below THEN Point(textNodePosition[1] + detailedTextNodeYShift, textNodePosition[2])
        ELSE IF above
        THEN Point(textNodePosition[1] + detailedTextNodeYShift, textNodePosition[2] + height)
        ELSE IF left
        THEN Point(textNodePosition[1] + width, textNodePosition[2] + detailedTextNodeYShift)
        ELSE Point(textNodePosition[1], textNodePosition[2] + detailedTextNodeYShift)

\* MetadataUtils.getBusNodeMetadata: the bus node with that svgId, if any
getBusNodeMetadata(busNodeId) == IF busNodeId \in BusNodes THEN busNodeId ELSE Null

\* the radii of getNodeRadius without the space between the annuli
getNodeRadiusWithoutSpace(nbNeighbours, busIndex, fictitious) ==
    LET vlCircleRadius == getVoltageLevelCircleRadius(nbNeighbours, fictitious)
    IN  [busInnerRadius |-> RoundDiv(busIndex * vlCircleRadius, nbNeighbours + 1),
         busOuterRadius |-> RoundDiv((busIndex + 1) * vlCircleRadius, nbNeighbours + 1),
         voltageLevelRadius |-> vlCircleRadius]

\* the radii getNodeRadius computes from nbNeighbours and index
getNodeRadiusOf(nbNeighbours, busIndex, fictitious) ==
    LET vlCircleRadius == getVoltageLevelCircleRadius(nbNeighbours, fictitious)
        interAnnulusSpace == SvgParameters.interAnnulusSpace
    IN  [busInnerRadius |->
            IF busIndex = 0 THEN 0
            ELSE RoundDiv(busIndex * vlCircleRadius, nbNeighbours + 1) + interAnnulusSpace \div 2,
         busOuterRadius |->
            RoundDiv((busIndex + 1) * vlCircleRadius, nbNeighbours + 1) - interAnnulusSpace \div 2,
         voltageLevelRadius |-> vlCircleRadius]

\* MetadataUtils.getNodeRadius: a missing bus node counts as nbNeighbours 0
\* and index 0
getNodeRadius(busNodeId, fictitious) ==
    LET nbNeighbours == IF busNodeId = Null THEN 0 ELSE BusNodeMetadata[busNodeId].nbNeighbours
        busIndex == IF busNodeId = Null THEN 0 ELSE BusNodeMetadata[busNodeId].index
    IN  getNodeRadiusOf(nbNeighbours, busIndex, fictitious)

\* SvgUtils.getEdgeStart: busNodeId?.length == 0 holds of the empty string only
getEdgeStart(busNodeId, vlPoint, direction, busOuterRadius) ==
    LET unknownBusNode1 == busNodeId = ""
        rho == IF unknownBusNode1
               THEN busOuterRadius + SvgParameters.unknownBusNodeExtraRadius
               ELSE busOuterRadius
    IN  getPointAtDistance(vlPoint, direction, rho)

\* getEdgeDirection preferring the fork to the bend point
getEdgeDirectionForkFirst(nodePoint, edgeFork, firstBendingPoint) ==
    IF edgeFork # NoPoint THEN edgeFork
    ELSE IF firstBendingPoint # NoPoint THEN firstBendingPoint
    ELSE nodePoint

\* SvgUtils.getEdgeDirection: an absent fork or bend point is NoPoint
getEdgeDirection(nodePoint, edgeFork, firstBendingPoint) ==
    IF firstBendingPoint # NoPoint THEN firstBendingPoint
    ELSE IF edgeFork # NoPoint THEN edgeFork
    ELSE nodePoint

RECURSIVE ChainLength(_)
ChainLength(chain) ==
    IF Len(chain) < 2 THEN 0
    ELSE getDistance(chain[1], chain[2]) + ChainLength(Tail(chain))

Reverse(seq) == [i \in 1..Len(seq) |-> seq[Len(seq) + 1 - i]]

\* the second loop of getEdgePoints, from segment i (1-based) on
RECURSIVE SplitEdgePoints(_, _, _, _, _, _, _)
SplitEdgePoints(pointsMetadata, distance, i, partialDistance, halfEdgePoints1, halfEdgePoints2, middleAdded) ==
    IF i > Len(pointsMetadata) - 1 THEN <<halfEdgePoints1, Reverse(halfEdgePoints2)>>
    ELSE LET point == pointsMetadata[i]
             nextPoint == pointsMetadata[i + 1]
             partial == partialDistance + getDistance(point, nextPoint)
         IN  IF 2 * partial < distance
             THEN SplitEdgePoints(pointsMetadata, distance, i + 1, partial,
                                  Append(halfEdgePoints1, nextPoint), halfEdgePoints2, middleAdded)
             ELSE IF ~middleAdded
             THEN LET edgeMiddle ==
                          getPointAtDistance(nextPoint, point, RoundDiv(2 * partial - distance, 2))
                  IN  SplitEdgePoints(pointsMetadata, distance, i + 1, partial,
                                      Append(halfEdgePoints1, edgeMiddle),
                                      halfEdgePoints2 \o <<edgeMiddle, nextPoint>>, TRUE)
             ELSE SplitEdgePoints(pointsMetadata, distance, i + 1, partial, halfEdgePoints1,
                                  Append(halfEdgePoints2, nextPoint), middleAdded)

\* MetadataUtils.getEdgePoints
getEdgePoints(edgeStart1, edgeFork1, edgeEnd1, edgeStart2, edgeFork2, edgeEnd2, bendingPoints) ==
    IF ~bendingPoints.def
    THEN << IF edgeFork1 # NoPoint THEN <<edgeStart1, edgeFork1, edgeEnd1>>
            ELSE <<edgeStart1, edgeEnd1>>,
            IF edgeFork2 # NoPoint THEN <<edgeStart2, edgeFork2, edgeEnd2>>
            ELSE <<edgeStart2, edgeEnd2>> >>
    ELSE LET pointsMetadata == <<edgeStart1>> \o bendingPoints.pts \o <<edgeStart2>>
         IN  IF \E i \in 1..Len(pointsMetadata) : IsNaNPoint(pointsMetadata[i])
             \* the length is NaN and no partial length is below it: the
             \* middle is taken on the first segment, and is NaN
             THEN <<<<edgeStart1, NaNPoint>>, Reverse(<<NaNPoint>> \o Tail(pointsMetadata))>>
             ELSE SplitEdgePoints(pointsMetadata, ChainLength(pointsMetadata), 1, 0,
                                  <<pointsMetadata[1]>>, <<>>, FALSE)

\* the fork angles of SvgUtils.getHalfEdges, in degrees
getForkAngles(point1, point2, iEdge, groupedEdgesCount) ==
    LET angle == getAngle(point1, point2)
        angleStep == SvgParameters.edgesForkAperture \div (groupedEdgesCount - 1)
        alpha == (-SvgParameters.edgesForkAperture) \div 2 + iEdge * angleStep
    IN  [angleFork1 |-> angle - alpha, angleFork2 |-> angle + 180 + alpha]

\* a HalfEdge that is null
NoHalfEdge == [side |-> Null]

\* SvgUtils.getHalfEdges; edge is an entry of diagramMetadata.edges and
\* nodePoints gives the x, y of the nodes of diagramMetadata.nodes
getHalfEdges(edge, iEdge, groupedEdgesCount, nodePoints) ==
    IF edge.node1 \notin DOMAIN nodePoints \/ edge.node2 \notin DOMAIN nodePoints
    THEN <<NoHalfEdge, NoHalfEdge>>
    ELSE
    LET edgeType == getEdgeType(edge.type)
        busNode1 == getBusNodeMetadata(edge.busNode1)
        busNode2 == getBusNodeMetadata(edge.busNode2)
        point1 == nodePoints[edge.node1]
        point2 == nodePoints[edge.node2]
        angles == getForkAngles(point1, point2, iEdge, groupedEdgesCount)
        edgeFork1 == IF groupedEdgesCount > 1
                     THEN getEdgeFork(point1, SvgParameters.edgesForkLength, angles.angleFork1)
                     ELSE NoPoint
        edgeFork2 == IF groupedEdgesCount > 1
                     THEN getEdgeFork(point2, SvgParameters.edgesForkLength, angles.angleFork2)
                     ELSE NoPoint
        bends == IF edge.bendingPoints.def THEN edge.bendingPoints.pts ELSE <<>>
        first == IF bends = <<>> THEN NoPoint ELSE bends[1]
        last == IF bends = <<>> THEN NoPoint ELSE bends[Len(bends)]
        edgeDirection1 == getEdgeDirection(point2, edgeFork1, first)
        nodeRadius1 == getNodeRadius(busNode1, FALSE)
        edgeStart1 == getEdgeStart(edge.busNode1, point1, edgeDirection1, nodeRadius1.busOuterRadius)
        edgeDirection2 == getEdgeDirection(point1, edgeFork2, last)
        nodeRadius2 == getNodeRadius(busNode2, FALSE)
        edgeStart2 == getEdgeStart(edge.busNode2, point2, edgeDirection2, nodeRadius2.busOuterRadius)
        edgeMiddle == IF edgeFork1 # NoPoint /\ edgeFork2 # NoPoint
                      THEN getMidPosition(edgeFork1, edgeFork2)
                      ELSE getMidPosition(edgeStart1, edgeStart2)
        endShift == (3 * SvgParameters.transformerCircleRadius) \div 2
        toward1 == IF edgeFork1 # NoPoint THEN edgeFork1 ELSE edgeStart1
        toward2 == IF edgeFork2 # NoPoint THEN edgeFork2 ELSE edgeStart2
        edgeEnd1 == IF ~isTransformerEdge(edgeType) THEN edgeMiddle
                    ELSE getPointAtDistance(edgeMiddle, toward1, endShift)
        edgeEnd2 == IF ~isTransformerEdge(edgeType) THEN edgeMiddle
                    ELSE getPointAtDistance(edgeMiddle, toward2, endShift)
        edgePoints == getEdgePoints(edgeStart1, edgeFork1, edgeEnd1,
                                    edgeStart2, edgeFork2, edgeEnd2, edge.bendingPoints)
    IN  << [side |-> "1", fork |-> groupedEdgesCount > 1,
            busOuterRadius |-> nodeRadius1.busOuterRadius,
            voltageLevelRadius |-> nodeRadius1.voltageLevelRadius,
            edgePoints |-> edgePoints[1]],
           [side |-> "2", fork |-> groupedEdgesCount > 1,
            busOuterRadius |-> nodeRadius2.busOuterRadius,
            voltageLevelRadius |-> nodeRadius2.voltageLevelRadius,
            edgePoints |-> edgePoints[2]] >>

\* SvgUtils.getTranslatedPolyline
getTranslatedPolyline(polylinePoints, nodePoint, initPosition) ==
    [i \in 1..Len(polylinePoints) |->
        IF IsNaNPoint(polylinePoints[i]) THEN NaNPoint
        ELSE
        Point(polylinePoints[i][1] + (nodePoint[1] - initPosition[1]),
              polylinePoints[i][2] + (nodePoint[2] - initPosition[2]))]

\* SvgUtils.getHalfVisibleHalfEdges; polylinePoints is what getPolylinePoints
\* read from the 'points' of the rendered polyline
getHalfVisibleHalfEdges(polylinePoints, edge, visibleSide, fork, nodePoints, initPosition) ==
    LET visibleNodeId == IF visibleSide = "1" THEN edge.node1 ELSE edge.node2
        visibleBusNode == IF visibleSide = "1" THEN edge.busNode1 ELSE edge.busNode2
    IN  IF polylinePoints = <<>> \/ visibleNodeId \notin DOMAIN nodePoints
        THEN <<NoHalfEdge, NoHalfEdge>>
        ELSE
        LET point == nodePoints[visibleNodeId]
            translated == IF initPosition # NoPoint
                          THEN getTranslatedPolyline(polylinePoints, point, initPosition)
                          ELSE polylinePoints
            nodeRadius == getNodeRadius(getBusNodeMetadata(visibleBusNode), FALSE)
            start == getEdgeStart(visibleBusNode, point, translated[2], nodeRadius.busOuterRadius)
            visibleHalfEdge ==
                [side |-> visibleSide, fork |-> fork,
                 busOuterRadius |-> nodeRadius.busOuterRadius,
                 voltageLevelRadius |-> nodeRadius.voltageLevelRadius,
                 edgePoints |-> [translated EXCEPT ![1] = start]]
        IN  IF visibleSide = "1" THEN <<visibleHalfEdge, NoHalfEdge>>
            ELSE <<NoHalfEdge, visibleHalfEdge>>

(***************************************************************************)
(* Elements of the rendered SVG that a pointer event can target            *)
(***************************************************************************)
\* ids that crypto.randomUUID can give to a bend handle
HandleNames == <<"h1", "h2", "h3", "h4", "h5", "h6", "h7", "h8">>
HandleIds == {HandleNames[i] : i \in 1..(MaxHandles + 2)}

Background == "svg"

\* SvgUtils.isBendable: the element carries the class nad-line-point
isBendable(element) == element \in HandleIds

\* SvgUtils.isTextNode: an element with an id and the class nad-label-box
isTextNode(element) == element \in TextNodes

\* SvgUtils.getSelectableFrom: an element with an id under nad-vl-nodes
getSelectableFrom(element) == IF element \in Nodes THEN element ELSE Null

\* SvgUtils.getDraggableFrom: under nad-vl-nodes / nad-boundary-nodes /
\* nad-3wt-nodes, or a text node, or a bend handle
getDraggableFrom(element) ==
    IF element \in Nodes \/ isTextNode(element) \/ isBendable(element) THEN element ELSE Null

\* SvgUtils.getBendableFrom
getBendableFrom(element) == IF isBendable(element) THEN element ELSE Null

\* SvgUtils.isBendableLine
isBendableLine(element, bendableIds) ==
    /\ element \in Edges
    /\ \E i \in 1..Len(bendableIds) : bendableIds[i] = element

\* SvgUtils.getBendableLineFrom
getBendableLineFrom(element, bendableIds) ==
    IF isBendableLine(element, bendableIds) THEN element ELSE Null

\* SvgUtils.getHoverableFrom: under nad-branch-edges / nad-3wt-edges /
\* nad-vl-nodes / nad-injections, or a text node
getHoverableFrom(element) ==
    IF element \in Edges \/ element \in Nodes \/ isTextNode(element) THEN element ELSE Null

(***************************************************************************)
(* State: the fields of NetworkAreaDiagramViewer, the mutable part of the  *)
(* metadata document and the part of the DOM the handlers read back.       *)
(***************************************************************************)
VARIABLES
    cfg,                    \* nadViewerParameters: the options given to the constructor
    nodes,                  \* diagramMetadata.nodes[*].{x, y}
    bendingPoints,          \* diagramMetadata.edges[*].bendingPoints
    busNode,                \* diagramMetadata.edges[*].{busNode1, busNode2}
    edgesMap,               \* edgesMap: the branch ids it has an entry for
    selectedElement,
    draggedElement,
    draggedElementType,
    isDragging,
    initialPosition,
    straightenedElement,
    originalNodePosition,
    panning,                \* the "panning" option last given to svgDraw.panZoom
    bendLines,
    bendableLines,
    linePointIndexMap,
    transform,              \* DOM: the translate() of the node elements and bend handles
    hoveredElement,
    hoveredElementPosition,
    isHoverCallbackUsed,
    debounced,              \* debounceToggleHoverCallback: <<>> or <<pending arguments>>
    calls,                  \* the external callbacks invoked by the last event, in order
    lastEvent,              \* the last event handled, with its inputs
    handled,                \* number of events handled so far
    bendSnapshot,           \* history: metadata as it was before the last bend-point creation
    textNodes,              \* diagramMetadata.textNodes[*].{shiftX, shiftY, connectionShiftX, connectionShiftY}
    endTextEdge,
    originalTextNodeShift,
    originalTextNodeConnectionShift,
    textPosition,           \* DOM: style.left / style.top of the legend boxes
    polylines,              \* DOM: the points of the polyline of the half-visible edges
    container,              \* DOM: the children of the container element
    svgDraw,                \* whether init created svgDraw
    callArgs,               \* the arguments of the last call of a geometry function
    callResult,             \* what that call returned
    zoomParameters,         \* nadViewerParameters: the level-of-detail and adaptive-zoom options
    zoomLevels,             \* zoomLevels, as the constructor sorted them
    legends,                \* diagramMetadata.nodes[*].{legendSvgId, legendEdgeSvgId}
    viewBox,                \* DOM: the viewBox attribute of the svg, set by panzoom
    viewBoxObserved,        \* whether the debounced observer of viewBox has a call pending
    previousMaxDisplayedSize,
    lastZoomLevel,
    innerSvgClass,          \* DOM: the class of innerSvg: <<>>, or <<level>> for nad-zoom-{level}
    sections,               \* DOM: the ids of the children of the legend and edge-info sections
    toggleHovers            \* history: the hovered flags given to onToggleHoverCallback so far

vars == <<cfg, nodes, bendingPoints, busNode, edgesMap, selectedElement, draggedElement,
          draggedElementType, isDragging, initialPosition, straightenedElement,
          originalNodePosition, panning, bendLines, bendableLines, linePointIndexMap,
          transform, hoveredElement, hoveredElementPosition, isHoverCallbackUsed,
          debounced, calls, lastEvent, handled, bendSnapshot, textNodes, endTextEdge,
          originalTextNodeShift, originalTextNodeConnectionShift, textPosition, polylines,
          container, svgDraw, callArgs, callResult, zoomParameters, zoomLevels, legends,
          viewBox, viewBoxObserved, previousMaxDisplayedSize, lastZoomLevel, innerSvgClass,
          sections, toggleHovers>>

\* the variables of the level of detail and of the adaptive text zoom
displayVars == <<zoomParameters, zoomLevels, legends, viewBox, viewBoxObserved,
                 previousMaxDisplayedSize, lastZoomLevel, innerSvgClass, sections>>

\* new Map()
EmptyMap == [h \in {} |-> [edgeId |-> Null, index |-> -1]]

\* the viewer, its metadata and its DOM as one record, for the handlers
St ==
    [nodes |-> nodes, bendingPoints |-> bendingPoints,
     selectedElement |-> selectedElement, draggedElement |-> draggedElement,
     draggedElementType |-> draggedElementType, isDragging |-> isDragging,
     initialPosition |-> initialPosition, straightenedElement |-> straightenedElement,
     originalNodePosition |-> originalNodePosition, panning |-> panning,
     bendLines |-> bendLines, bendableLines |-> bendableLines,
     linePointIndexMap |-> linePointIndexMap, transform |-> transform,
     hoveredElement |-> hoveredElement, hoveredElementPosition |-> hoveredElementPosition,
     isHoverCallbackUsed |-> isHoverCallbackUsed, debounced |-> debounced,
     textNodes |-> textNodes, endTextEdge |-> endTextEdge,
     originalTextNodeShift |-> originalTextNodeShift,
     originalTextNodeConnectionShift |-> originalTextNodeConnectionShift,
     textPosition |-> textPosition, polylines |-> polylines,
     busNode |-> busNode, calls |-> <<>>]

\* elements that are no longer in the document nor referenced by the viewer
\* are forgotten (their translate() can no longer be read)
Collect(s) ==
    LET kept == DOMAIN s.linePointIndexMap \cup {s.draggedElement, s.straightenedElement}
    IN  [s EXCEPT !.transform =
            [el \in DOMAIN s.transform |->
                IF el \in HandleIds /\ el \notin kept THEN Origin ELSE s.transform[el]]]

Apply(s0) ==
    \E s \in {Collect(s0)} :
        /\ nodes' = s.nodes
        /\ bendingPoints' = s.bendingPoints
        /\ selectedElement' = s.selectedElement
        /\ draggedElement' = s.draggedElement
        /\ draggedElementType' = s.draggedElementType
        /\ isDragging' = s.isDragging
        /\ initialPosition' = s.initialPosition
        /\ straightenedElement' = s.straightenedElement
        /\ originalNodePosition' = s.originalNodePosition
        /\ panning' = s.panning
        /\ bendLines' = s.bendLines
        /\ bendableLines' = s.bendableLines
        /\ linePointIndexMap' = s.linePointIndexMap
        /\ transform' = s.transform
        /\ hoveredElement' = s.hoveredElement
        /\ hoveredElementPosition' = s.hoveredElementPosition
        /\ isHoverCallbackUsed' = s.isHoverCallbackUsed
        /\ debounced' = s.debounced
        /\ textNodes' = s.textNodes
        /\ endTextEdge' = s.endTextEdge
        /\ originalTextNodeShift' = s.originalTextNodeShift
        /\ originalTextNodeConnectionShift' = s.originalTextNodeConnectionShift
        /\ textPosition' = s.textPosition
        /\ polylines' = s.polylines
        /\ calls' = s.calls

(***************************************************************************)
(* Lookups                                                                 *)
(***************************************************************************)
\* diagramMetadata.edges.find((edge) => edge.svgId == id)
FindEdge(id) == IF id \in Edges THEN id ELSE Null

\* diagramMetadata.nodes.find((node) => node.svgId == id)
FindNode(id) == IF id \in Nodes THEN id ELSE Null

\* linePointIndexMap.get(id)?.edgeId
LinePointEdgeId(s, id) ==
    IF id \in DOMAIN s.linePointIndexMap THEN s.linePointIndexMap[id].edgeId ELSE Null

\* SvgUtils.getPosition: the translate() of the element, (0, 0) when it has none
getPosition(s, element) ==
    IF element \in DOMAIN s.transform THEN s.transform[element] ELSE Origin

\* SvgUtils.getTextNodePosition: style.left and style.top of the legend box
getTextNodePosition(s, textNode) == s.textPosition[textNode]

\* SvgUtils.getTextNodeSize: scrollWidth and scrollHeight of the legend box
getTextNodeSize(textNode) == TextNodeSize

\* SvgUtils.getTextNodeTopLeftCornerFromCenter
getTextNodeTopLeftCornerFromCenter(textNode, centrePosition) ==
    Point(centrePosition[1] - getTextNodeSize(textNode).width \div 2,
          centrePosition[2] - getTextNodeSize(textNode).height \div 2)

\* DiagramUtils.getFormattedPolyline, read back by SvgUtils.getPolylinePoints
FormattedPolyline(points) ==
    [i \in 1..Len(points) |-> IF IsNaNPoint(points[i]) THEN NaNPoint ELSE FormattedPoint(points[i])]

\* the first id not yet given to an element the viewer still knows
FreshHandleId(s) ==
    LET used == DOMAIN s.linePointIndexMap \cup {s.draggedElement, s.straightenedElement}
        i == CHOOSE k \in 1..(MaxHandles + 2) :
                /\ HandleNames[k] \notin used
                /\ \A j \in 1..(k - 1) : HandleNames[j] \in used
    IN  HandleNames[i]

RECURSIVE SumLen(_, _)
SumLen(bp, es) ==
    IF es = {} THEN 0
    ELSE LET e == CHOOSE x \in es : TRUE
         IN  Len(bp[e].pts) + SumLen(bp, es \ {e})

\* number of bend points of the document
TotalPoints(bp) == SumLen(bp, Edges)

(***************************************************************************)
(* Selection and drag                                                      *)
(***************************************************************************)
\* hasNodeInteraction
hasNodeInteraction ==
    cfg.enableDragInteraction \/ cfg.onRightClickCallback \/ cfg.onSelectNodeCallback

\* init registering the pointer handlers whether or not there is metadata
PointerHandlersRegisteredWithoutMetadata == svgDraw /\ hasNodeInteraction

\* init registers mousedown / mousemove / mouseup mouseleave only then
PointerHandlersRegistered == svgDraw /\ hasNodeInteraction /\ cfg.hasMetadata

\* init registers mouseover / mouseout whenever there is metadata
HoverHandlersRegistered == svgDraw /\ cfg.hasMetadata

enablePanzoom(s) == [s EXCEPT !.panning = TRUE]

disablePanzoom(s) == [s EXCEPT !.panning = FALSE]

initSelection(s, selectableElem) ==
    IF selectableElem = Null THEN s
    ELSE [(IF cfg.onSelectNodeCallback THEN disablePanzoom(s) ELSE s)
            EXCEPT !.selectedElement = selectableElem]

initDrag(s, draggableElem) ==
    IF draggableElem = Null THEN s
    ELSE [disablePanzoom(s) EXCEPT
            !.draggedElement = draggableElem,
            !.draggedElementType =
                IF isBendable(draggableElem) THEN "BENT_SQUARE"
                ELSE IF isTextNode(draggableElem) THEN "TEXT_NODE"
                ELSE "VOLTAGE_LEVEL_NODE"]

onDragStart(s) ==
    LET s1 == [s EXCEPT !.isDragging = TRUE]
    IN  IF s.draggedElementType = "VOLTAGE_LEVEL_NODE"
        THEN LET node == FindNode(s.draggedElement)
             IN  [s1 EXCEPT !.initialPosition = getPosition(s, s.draggedElement),
                            !.originalNodePosition =
                                IF node # Null THEN s.nodes[node] ELSE @]
        ELSE IF s.draggedElementType = "BENT_SQUARE"
        THEN [s1 EXCEPT !.initialPosition = getPosition(s, s.draggedElement)]
        ELSE IF s.draggedElementType = "TEXT_NODE"
        THEN LET textNode == s.textNodes[s.draggedElement]
             IN  [s1 EXCEPT !.initialPosition = getTextNodePosition(s, s.draggedElement),
                            !.endTextEdge = Origin,
                            !.originalTextNodeShift = Point(textNode.shiftX, textNode.shiftY),
                            !.originalTextNodeConnectionShift =
                                Point(textNode.connectionShiftX, textNode.connectionShiftY)]
        ELSE s1

\* existsNearbyHoveredElement
existsNearbyHoveredElement(s, mousePosition) ==
    /\ s.hoveredElement # Null
    /\ SqDistance(s.hoveredElementPosition, mousePosition) <= Sq(cfg.hoverPositionPrecision)

(***************************************************************************)
(* Bend-point bookkeeping                                                  *)
(***************************************************************************)
\* SvgUtils.createLinePointElement through addLinePoint: a new handle with a
\* fresh id, translated to the point, mapped to {edgeId, index}
addLinePoint(s, lineId, index, point) ==
    LET id == FreshHandleId(s)
    IN  [s EXCEPT
            !.linePointIndexMap =
                [h \in DOMAIN s.linePointIndexMap \cup {id} |->
                    IF h = id THEN [edgeId |-> lineId, index |-> index]
                    ELSE s.linePointIndexMap[h]],
            !.transform = [@ EXCEPT ![id] = FormattedPoint(point)]]

\* variant: the handle that was at the insertion index is not shifted
ShiftAfterInsertStrict(map, self, edge, index) ==
    [h \in DOMAIN map |->
        IF h # self /\ map[h].edgeId = edge /\ map[h].index > index
        THEN [map[h] EXCEPT !.index = @ + 1]
        ELSE map[h]]

\* the shift of the other handles of the edge after an insertion at index
ShiftAfterInsert(map, self, edge, index) ==
    [h \in DOMAIN map |->
        IF h # self /\ map[h].edgeId = edge /\ map[h].index >= index
        THEN [map[h] EXCEPT !.index = @ + 1]
        ELSE map[h]]

\* variant: the removal shifts no handle
ShiftBeforeRemoveNone(map, self, edge, index) == map

\* the shift of the other handles of the edge before the removal at index
ShiftBeforeRemove(map, self, edge, index) ==
    [h \in DOMAIN map |->
        IF h # self /\ map[h].edgeId = edge /\ map[h].index >= index
        THEN [map[h] EXCEPT !.index = @ - 1]
        ELSE map[h]]

\* the handle has an entry: the caller found the edge through it
updateEdgeMetadataWhenBending(s, edge, linePointElement, position) ==
    LET index == s.linePointIndexMap[linePointElement].index
        node1 == FindNode(EdgeMetadata[edge].node1)
        node2 == FindNode(EdgeMetadata[edge].node2)
    IN  IF index = -1
        THEN IF node1 # Null /\ node2 # Null
             THEN LET linePoints == addPointToList(s.bendingPoints[edge], s.nodes[node1],
                                                   s.nodes[node2], position)
                      set == [s.linePointIndexMap EXCEPT ![linePointElement] =
                                [edgeId |-> edge, index |-> linePoints.index]]
                  IN  [s EXCEPT
                        !.bendingPoints = [@ EXCEPT ![edge] = linePoints.linePoints],
                        !.linePointIndexMap =
                            ShiftAfterInsert(set, linePointElement, edge, linePoints.index)]
             ELSE s
        ELSE IF s.bendingPoints[edge].def
        THEN \* update line point (the index is one of the list: see LinePointsInvariant)
             [s EXCEPT !.bendingPoints =
                [@ EXCEPT ![edge] =
                    IF index + 1 \in 1..Len(@.pts)
                    THEN List([@.pts EXCEPT ![index + 1] = RoundPoint(position)])
                    ELSE @]]
        ELSE [s EXCEPT !.bendingPoints = [@ EXCEPT ![edge] = List(<<RoundPoint(position)>>)]]

\* variant: a list emptied by the removal stays an empty list
updateEdgeMetadataWhenStraighteningKeepsEmpty(s, edge, linePointElement) ==
    LET index == IF linePointElement \in DOMAIN s.linePointIndexMap
                 THEN s.linePointIndexMap[linePointElement].index ELSE -1
    IN  IF s.bendingPoints[edge].def
        THEN [s EXCEPT
                !.linePointIndexMap = ShiftBeforeRemove(@, linePointElement, edge, index),
                !.bendingPoints =
                    [@ EXCEPT ![edge] = List(Splice1(s.bendingPoints[edge].pts, index))]]
        ELSE s

updateEdgeMetadataWhenStraightening(s, edge, linePointElement) ==
    LET index == IF linePointElement \in DOMAIN s.linePointIndexMap
                 THEN s.linePointIndexMap[linePointElement].index ELSE -1
    IN  IF s.bendingPoints[edge].def
        THEN LET spliced == Splice1(s.bendingPoints[edge].pts, index)
             IN  [s EXCEPT
                    !.linePointIndexMap = ShiftBeforeRemove(@, linePointElement, edge, index),
                    !.bendingPoints =
                        [@ EXCEPT ![edge] = IF Len(spliced) = 0 THEN Undefined ELSE List(spliced)]]
        ELSE s

\* lineOperation is "BEND" or "STRAIGHTEN"; position is NoPoint for null
updateEdgeMetadata(s, linePointElement, position, lineOperation) ==
    LET edge == FindEdge(LinePointEdgeId(s, linePointElement))
    IN  IF edge = Null THEN s
        ELSE IF position # NoPoint /\ lineOperation = "BEND"
        THEN updateEdgeMetadataWhenBending(s, edge, linePointElement, position)
        ELSE updateEdgeMetadataWhenStraightening(s, edge, linePointElement)

\* variant: the straightened handle keeps its entry in linePointIndexMap
redrawBentLineKeepsEntry(s, linePoint, lineOperation) ==
    LET s1 == [s EXCEPT !.initialPosition = getPosition(s, linePoint)]
        edge == FindEdge(LinePointEdgeId(s, linePoint))
    IN  IF edge = Null \/ (lineOperation = "BEND" /\ ~s.bendingPoints[edge].def) THEN s1
        ELSE IF s.bendingPoints[edge].def /\ lineOperation = "BEND"
        THEN LET index == s.linePointIndexMap[linePoint].index
             IN  [s1 EXCEPT !.transform =
                    [@ EXCEPT ![linePoint] = FormattedPoint(s.bendingPoints[edge].pts[index + 1])]]
        ELSE s1

\* the element of every edge of the metadata is in the document, so the
\* querySelector of the edge never fails
redrawBentLine(s, linePoint, lineOperation) ==
    LET s1 == [s EXCEPT !.initialPosition = getPosition(s, linePoint)]
        edge == FindEdge(LinePointEdgeId(s, linePoint))
    IN  IF edge = Null \/ (lineOperation = "BEND" /\ ~s.bendingPoints[edge].def) THEN s1
        ELSE IF s.bendingPoints[edge].def /\ lineOperation = "BEND"
        THEN \* move line point
             LET index == s.linePointIndexMap[linePoint].index
             IN  [s1 EXCEPT !.transform =
                    [@ EXCEPT ![linePoint] = FormattedPoint(s.bendingPoints[edge].pts[index + 1])]]
        ELSE \* linePoint.remove(); linePointIndexMap.delete(linePoint.id)
             [s1 EXCEPT !.linePointIndexMap =
                [h \in DOMAIN @ \ {linePoint} |-> @[h]]]

callBendLineCallback(s, linePointElement, lineOperation) ==
    LET edge == FindEdge(LinePointEdgeId(s, linePointElement))
    IN  IF cfg.onBendLineCallback /\ edge # Null
        THEN [s EXCEPT !.calls = Append(@,
                [cb |-> "onBendLineCallback", svgId |-> edge,
                 equipmentId |-> EdgeMetadata[edge].equipmentId,
                 type |-> getStringEdgeType(edge),
                 linePoints |-> s.bendingPoints[edge],
                 lineOperation |-> lineOperation])]
        ELSE s

\* variant: the new handle is not armed for a drag
createEdgeBendPointUnarmed(s, bendableElem, mousePosition) ==
    IF bendableElem = Null THEN s
    ELSE updateEdgeMetadata(addLinePoint(s, bendableElem, -1, mousePosition),
                            FreshHandleId(s), mousePosition, "BEND")

createEdgeBendPoint(s, bendableElem, mousePosition) ==
    IF bendableElem = Null THEN s
    ELSE LET pointElement == FreshHandleId(s)
             s1 == addLinePoint(s, bendableElem, -1, mousePosition)
             s2 == onDragStart(initDrag(s1, pointElement))
         IN  updateEdgeMetadata(s2, pointElement, mousePosition, "BEND")

\* variant: pan/zoom stays enabled while a straighten is armed
onStraightenStartKeepsPanzoom(s, bendableElem) ==
    IF bendableElem = Null THEN s
    ELSE LET edge == FindEdge(LinePointEdgeId(s, bendableElem))
         IN  IF edge = Null \/ ~s.bendingPoints[edge].def THEN s
             ELSE [s EXCEPT !.straightenedElement = bendableElem]

onStraightenStart(s, bendableElem) ==
    IF bendableElem = Null THEN s
    ELSE LET edge == FindEdge(LinePointEdgeId(s, bendableElem))
         IN  IF edge = Null \/ ~s.bendingPoints[edge].def THEN s
             ELSE [disablePanzoom(s) EXCEPT !.straightenedElement = bendableElem]

onStraightenEnd(s) ==
    IF s.straightenedElement = Null THEN s
    ELSE LET s1 == updateEdgeMetadata(s, s.straightenedElement, NoPoint, "STRAIGHTEN")
             s2 == redrawBentLine(s1, s.straightenedElement, "STRAIGHTEN")
             s3 == callBendLineCallback(s2, s.straightenedElement, "STRAIGHTEN")
         IN  enablePanzoom([s3 EXCEPT !.straightenedElement = Null])

\* the preceding test of bendLines and the loop over the bendable edges
RECURSIVE AddLinePoints(_, _, _)
AddLinePoints(s, edge, index) ==
    IF index >= Len(s.bendingPoints[edge].pts) THEN s
    ELSE AddLinePoints(addLinePoint(s, edge, index, s.bendingPoints[edge].pts[index + 1]),
                       edge, index + 1)

RECURSIVE EnableEdges(_, _)
EnableEdges(s, bendableEdges) ==
    IF bendableEdges = <<>> THEN s
    ELSE LET edge == Head(bendableEdges)
             s1 == IF s.bendingPoints[edge].def THEN AddLinePoints(s, edge, 0) ELSE s
         IN  EnableEdges([s1 EXCEPT !.bendableLines = Append(@, edge)], Tail(bendableEdges))

enableLineBending(s) ==
    LET s1 == EnableEdges(s, IF cfg.hasMetadata THEN getBendableLines ELSE <<>>)
    IN  IF Len(s1.bendableLines) > 0 THEN [s1 EXCEPT !.bendLines = TRUE] ELSE s1

disableLineBending(s) ==
    [s EXCEPT !.linePointIndexMap = EmptyMap, !.bendableLines = <<>>, !.bendLines = FALSE]

(***************************************************************************)
(* Hover                                                                   *)
(***************************************************************************)
\* debounceToggleHoverCallback(hovered, mousePosition, equipmentId, equipmentType)
debounceToggleHoverCallback(s, hovered, mousePosition, equipmentId, equipmentType) ==
    [s EXCEPT !.debounced =
        <<[hovered |-> hovered, mousePosition |-> mousePosition,
           equipmentId |-> equipmentId, equipmentType |-> equipmentType]>>]

ToggleHoverCall(args) ==
    [cb |-> "onToggleHoverCallback", hovered |-> args.hovered,
     mousePosition |-> args.mousePosition, equipmentId |-> args.equipmentId,
     equipmentType |-> args.equipmentType]

resetHoverCallback(s) ==
    LET s1 == [s EXCEPT !.debounced = <<>>]
    IN  IF s.isHoverCallbackUsed
        THEN [s1 EXCEPT
                !.isHoverCallbackUsed = FALSE,
                !.calls = IF cfg.onToggleHoverCallback
                          THEN Append(@, ToggleHoverCall([hovered |-> FALSE, mousePosition |-> NoPoint,
                                                          equipmentId |-> "", equipmentType |-> ""]))
                          ELSE @]
        ELSE s1

\* SvgUtils.isVoltageLevelElement
isVoltageLevelElement(element) == element \in Nodes

handleHighlightableElementHover(s, element, mousePosition) ==
    IF isTextNode(element)
    THEN debounceToggleHoverCallback(s, TRUE, mousePosition, TextNodeMetadata[element].equipmentId,
                                     "TEXT_NODE")
    ELSE IF isVoltageLevelElement(element) /\ FindNode(element) # Null
    THEN debounceToggleHoverCallback(s, TRUE, mousePosition, NodeEquipmentId[element], "VOLTAGE_LEVEL")
    ELSE s

handleEdgeHover(s, element, mousePosition) ==
    IF FindEdge(element) # Null
    THEN debounceToggleHoverCallback(s, TRUE, mousePosition, EdgeMetadata[element].equipmentId,
                                     getStringEdgeType(element))
    ELSE s

onHover(s, target, mousePosition) ==
    LET hoverableElem == getHoverableFrom(target)
    IN  IF hoverableElem = Null THEN s
        ELSE [s EXCEPT !.hoveredElement = hoverableElem,
                       !.hoveredElementPosition = mousePosition]

handleHoverCallBack(s, target, mousePosition) ==
    IF s.hoveredElement = Null THEN s
    ELSE LET hoverableElem == getHoverableFrom(target)
             s1 == IF hoverableElem # Null /\ hoverableElem = s.hoveredElement
                   THEN [s EXCEPT !.hoveredElementPosition = mousePosition]
                   ELSE s
         IN  IF existsNearbyHoveredElement(s1, mousePosition)
             THEN LET s2 == IF isTextNode(s1.hoveredElement) \/ isVoltageLevelElement(s1.hoveredElement)
                            THEN handleHighlightableElementHover(s1, s1.hoveredElement, mousePosition)
                            ELSE handleEdgeHover(s1, s1.hoveredElement, mousePosition)
                  IN  [s2 EXCEPT !.isHoverCallbackUsed = TRUE]
             ELSE [resetHoverCallback(s1) EXCEPT !.hoveredElement = Null]

(***************************************************************************)
(* Pointer handlers                                                        *)
(***************************************************************************)
\* the element the press resolves to: the hovered element when it is near
TargetElement(s, target, mousePosition) ==
    IF s.hoveredElement # Null /\ existsNearbyHoveredElement(s, mousePosition)
    THEN s.hoveredElement
    ELSE target

\* onMouseLeftDown arming the drag whatever enableDragInteraction is
onMouseLeftDownAlwaysDrags(s, target, shiftKey, mousePosition) ==
    LET targetElement == TargetElement(s, target, mousePosition)
        draggableElem == getDraggableFrom(targetElement)
        s1 == initSelection(s, getSelectableFrom(targetElement))
    IN  IF shiftKey
        THEN IF s1.bendLines THEN onStraightenStart(s1, getBendableFrom(targetElement)) ELSE s1
        ELSE LET s2 == initDrag(s1, draggableElem)
             IN  IF s2.bendLines /\ draggableElem = Null
                 THEN createEdgeBendPoint(s2, getBendableLineFrom(targetElement, s2.bendableLines),
                                          mousePosition)
                 ELSE s2

onMouseLeftDown(s, target, shiftKey, mousePosition) ==
    LET targetElement == TargetElement(s, target, mousePosition)
        selectableElem == getSelectableFrom(targetElement)
        draggableElem == getDraggableFrom(targetElement)
        s1 == initSelection(s, selectableElem)
    IN  IF shiftKey
        THEN IF s1.bendLines THEN onStraightenStart(s1, getBendableFrom(targetElement)) ELSE s1
        ELSE LET s2 == IF cfg.enableDragInteraction THEN initDrag(s1, draggableElem) ELSE s1
             IN  IF s2.bendLines /\ draggableElem = Null
                 THEN createEdgeBendPoint(s2, getBendableLineFrom(targetElement, s2.bendableLines),
                                          mousePosition)
                 ELSE s2

\* updateNodeMetadata storing the position as it is given
updateNodeMetadataUnrounded(s, vlNode, position) ==
    LET node == FindNode(vlNode)
    IN  IF node # Null THEN [s EXCEPT !.nodes = [@ EXCEPT ![node] = position]] ELSE s

updateNodeMetadata(s, vlNode, position) ==
    LET node == FindNode(vlNode)
    IN  IF node # Null
        THEN [s EXCEPT !.nodes = [@ EXCEPT ![node] = RoundPoint(position)]]  \* getNodeMove
        ELSE s

\* MetadataUtils.getTextNodeMoves applied by updateTextNodeMetadata
updateTextNodeMetadata(s, textNodeId, position) ==
    IF textNodeId \notin TextNodes \/ FindNode(TextNodeMetadata[textNodeId].vlNode) = Null THEN s
    ELSE LET node == s.nodes[TextNodeMetadata[textNodeId].vlNode]
         IN  [s EXCEPT !.textNodes[textNodeId] =
                [shiftX |-> Round(position[1] - node[1]),
                 shiftY |-> Round(position[2] - node[2]),
                 connectionShiftX |-> Round(s.endTextEdge[1] - node[1]),
                 connectionShiftY |-> Round(s.endTextEdge[2] - node[2])]]

\* redrawTextEdge: the legend box has a size, so endTextEdge is recomputed;
\* the points of the text edge are written and never read back
redrawTextEdge(s, textNodePosition, node, textHeight, textWidth) ==
    IF textHeight # 0 \/ textWidth # 0
    THEN [s EXCEPT !.endTextEdge =
            getTextEdgeEnd(textNodePosition, s.nodes[node],
                           LayoutParameters.textNodeEdgeConnectionYShift, textHeight, textWidth)]
    ELSE s

\* updateText: updateTextNodePosition, then redrawTextEdge
updateText(s, textNode, node, position) ==
    redrawTextEdge([s EXCEPT !.textPosition[textNode] = TextPositionOf(position)],
                   position, node, getTextNodeSize(textNode).height, getTextNodeSize(textNode).width)

updateVoltageLevelText(s, textNode) ==
    IF textNode \notin TextNodes \/ FindNode(TextNodeMetadata[textNode].vlNode) = Null THEN s
    ELSE LET node == TextNodeMetadata[textNode].vlNode
         IN  updateText(s, textNode, node,
                        Point(s.nodes[node][1] + s.textNodes[textNode].shiftX,
                              s.nodes[node][2] + s.textNodes[textNode].shiftY))

\* an entry of diagramMetadata.edges as the half-edge functions read it
EdgeOf(s, e) ==
    [node1 |-> EdgeMetadata[e].node1, node2 |-> EdgeMetadata[e].node2,
     busNode1 |-> s.busNode[e][1], busNode2 |-> s.busNode[e][2],
     bendingPoints |-> s.bendingPoints[e], type |-> EdgeMetadata[e].type]

\* NetworkAreaDiagramViewer.getHalfEdges
viewerGetHalfEdges(s, e, iEdge, groupedEdgesCount) ==
    LET invisibleSide == getInvisibleSide(e)
    IN  IF invisibleSide = Null
        THEN getHalfEdges(EdgeOf(s, e), iEdge, groupedEdgesCount, s.nodes)
        ELSE getHalfVisibleHalfEdges(s.polylines[e], EdgeOf(s, e),
                                     IF invisibleSide = "1" THEN "2" ELSE "1",
                                     groupedEdgesCount > 1, s.nodes, s.initialPosition)

\* redrawBranchEdge / redrawHalfEdge: the 'points' of the polyline of a
\* half-visible edge are read back by getHalfEdges; those of the other
\* edges are written and never read back
redrawBranchEdge(s, e, halfEdges) ==
    IF e \notin HalfVisibleEdges THEN s
    ELSE LET halfEdge == IF halfEdges[1].side # Null THEN halfEdges[1] ELSE halfEdges[2]
         IN  IF halfEdge.side = Null THEN s
             ELSE [s EXCEPT !.polylines[e] = FormattedPolyline(halfEdge.edgePoints)]

\* the position of the edge in its group of parallel edges, and the size
\* of the group (updateEdges, buildGroupedEdgesIndexMap)
GroupOf(e) ==
    SelectEdges(EdgeOrder, {f \in Edges : /\ EdgeMetadata[f].node1 # EdgeMetadata[f].node2
                                          /\ getGroupedEdgesIndexKey(f) = getGroupedEdgesIndexKey(e)})

IndexInGroup(e) == (CHOOSE i \in 1..Len(GroupOf(e)) : GroupOf(e)[i] = e) - 1

\* redrawEdge
redrawEdge(s, e, iEdge, groupedEdgesCount) ==
    IF getEdgeType(EdgeMetadata[e].type) = "UNKNOWN" THEN s
    ELSE redrawBranchEdge(s, e, viewerGetHalfEdges(s, e, iEdge, groupedEdgesCount))

RECURSIVE RedrawEdges(_, _)
RedrawEdges(s, es) ==
    IF es = <<>> THEN s
    ELSE RedrawEdges(redrawEdge(s, Head(es), IndexInGroup(Head(es)), Len(GroupOf(Head(es)))),
                     Tail(es))

\* updateEdges: the edges of the node that are not loops, group by group
updateEdges(s, vlNode) ==
    RedrawEdges(s, SelectEdges(EdgeOrder,
                    {e \in HalfVisibleEdges :
                        /\ EdgeMetadata[e].node1 = vlNode \/ EdgeMetadata[e].node2 = vlNode
                        /\ EdgeMetadata[e].node1 # EdgeMetadata[e].node2}))

\* updateNodePosition of the node element, updateVoltageLevelText of its
\* legend, updateEdges; the redraw of the bus nodes and of the injections
\* writes attributes that no handler reads back
updateVoltageLevelNode(s, vlNode) ==
    LET node == FindNode(vlNode)
    IN  IF node # Null
        THEN LET s1 == [s EXCEPT !.transform = [@ EXCEPT ![vlNode] = FormattedPoint(s.nodes[node])]]
                 s2 == IF NodeLegendSvgId[node] # Null
                       THEN updateVoltageLevelText(s1, NodeLegendSvgId[node])
                       ELSE s1
             IN  updateEdges(s2, vlNode)
        ELSE s

updateElement(s, element) ==
    IF isTextNode(element)
    THEN updateVoltageLevelText([s EXCEPT !.initialPosition = getTextNodePosition(s, element)],
                                element)
    ELSE updateVoltageLevelNode([s EXCEPT !.initialPosition = getPosition(s, element)], element)

\* diagramMetadata?.nodes.find((node) => node.equipmentId == equipmentId)
getNodeIdFromEquipmentId(equipmentId) ==
    IF cfg.hasMetadata /\ \E n \in Nodes : NodeEquipmentId[n] = equipmentId
    THEN CHOOSE n \in Nodes : NodeEquipmentId[n] = equipmentId
    ELSE Null

moveNodeToCoordinates(s, equipmentId, x, y) ==
    LET nodeId == getNodeIdFromEquipmentId(equipmentId)
    IN  IF nodeId # Null /\ svgDraw
        THEN updateElement(updateNodeMetadata(s, nodeId, Point(x, y)), nodeId)
        ELSE s

moveTextNodeToCoordinates(s, equipmentId, shiftX, shiftY, connectionShiftX, connectionShiftY) ==
    LET nodeId == getNodeIdFromEquipmentId(equipmentId)
        found == {tn \in TextNodes : TextNodeMetadata[tn].equipmentId = equipmentId}
    IN  IF nodeId = Null \/ ~svgDraw \/ found = {} THEN s
        ELSE LET nodePosition == getPosition(s, nodeId)
                 textNode == CHOOSE tn \in found : TRUE
                 s1 == [s EXCEPT !.endTextEdge = Point(nodePosition[1] + connectionShiftX,
                                                       nodePosition[2] + connectionShiftY)]
             IN  updateElement(
                     updateTextNodeMetadata(s1, textNode, Point(nodePosition[1] + shiftX,
                                                                nodePosition[2] + shiftY)),
                     textNode)

onMouseMove(s, target, mousePosition) ==
    IF s.draggedElement = Null THEN handleHoverCallBack(s, target, mousePosition)
    ELSE LET s1 == IF ~s.isDragging THEN onDragStart(s) ELSE s
         IN  IF s1.draggedElementType = "VOLTAGE_LEVEL_NODE"
             THEN updateElement(updateNodeMetadata(s1, s1.draggedElement, mousePosition),
                                s1.draggedElement)
             ELSE IF s1.draggedElementType = "BENT_SQUARE"
             THEN redrawBentLine(updateEdgeMetadata(s1, s1.draggedElement, mousePosition, "BEND"),
                                 s1.draggedElement, "BEND")
             ELSE IF s1.draggedElementType = "TEXT_NODE"
             THEN updateElement(
                      updateTextNodeMetadata(s1, s1.draggedElement,
                          getTextNodeTopLeftCornerFromCenter(s1.draggedElement, mousePosition)),
                      s1.draggedElement)
             ELSE s1

\* callMoveNodeCallback giving the new position as the original one too
callMoveNodeCallbackWithoutOrigin(s, vlNode) ==
    LET node == FindNode(vlNode)
    IN  IF cfg.onMoveNodeCallback /\ node # Null
        THEN [s EXCEPT !.calls = Append(@,
                [cb |-> "onMoveNodeCallback", equipmentId |-> NodeEquipmentId[node], svgId |-> node,
                 x |-> s.nodes[node][1], y |-> s.nodes[node][2],
                 xOrig |-> s.nodes[node][1], yOrig |-> s.nodes[node][2]])]
        ELSE s

callMoveNodeCallback(s, vlNode) ==
    LET node == FindNode(vlNode)
    IN  IF cfg.onMoveNodeCallback /\ node # Null
        THEN [s EXCEPT !.calls = Append(@,
                [cb |-> "onMoveNodeCallback", equipmentId |-> NodeEquipmentId[node], svgId |-> node,
                 x |-> s.nodes[node][1], y |-> s.nodes[node][2],
                 xOrig |-> s.originalNodePosition[1], yOrig |-> s.originalNodePosition[2]])]
        ELSE s

callMoveTextNodeCallback(s, textNodeElement) ==
    IF cfg.onMoveTextNodeCallback /\ textNodeElement \in TextNodes
       /\ FindNode(TextNodeMetadata[textNodeElement].vlNode) # Null
    THEN LET textNode == s.textNodes[textNodeElement]
             node == TextNodeMetadata[textNodeElement].vlNode
         IN  [s EXCEPT !.calls = Append(@,
                [cb |-> "onMoveTextNodeCallback", equipmentId |-> NodeEquipmentId[node],
                 svgId |-> node, textNodeId |-> textNodeElement,
                 shiftX |-> textNode.shiftX, shiftY |-> textNode.shiftY,
                 shiftXOrig |-> s.originalTextNodeShift[1], shiftYOrig |-> s.originalTextNodeShift[2],
                 connectionShiftX |-> textNode.connectionShiftX,
                 connectionShiftY |-> textNode.connectionShiftY,
                 connectionShiftXOrig |-> s.originalTextNodeConnectionShift[1],
                 connectionShiftYOrig |-> s.originalTextNodeConnectionShift[2]])]
    ELSE s

onDragEnd(s) ==
    IF s.draggedElement = Null THEN s
    ELSE IF s.draggedElementType = "BENT_SQUARE"
    THEN callBendLineCallback(s, s.draggedElement, "BEND")
    ELSE IF s.draggedElementType = "TEXT_NODE"
    THEN callMoveTextNodeCallback(s, s.draggedElement)
    ELSE IF s.draggedElementType = "VOLTAGE_LEVEL_NODE"
    THEN callMoveNodeCallback(s, s.draggedElement)
    ELSE s

\* onSelectEnd
callSelectNodeCallback(s, mousePosition) ==
    LET node == FindNode(s.selectedElement)
    IN  IF cfg.onSelectNodeCallback /\ node # Null
        THEN [s EXCEPT !.calls = Append(@,
                [cb |-> "onSelectNodeCallback", equipmentId |-> NodeEquipmentId[node],
                 svgId |-> node, mousePosition |-> mousePosition])]
        ELSE s

resetMouseEventParams(s) ==
    [s EXCEPT !.selectedElement = Null,
              !.isDragging = FALSE,
              !.draggedElement = Null,
              !.draggedElementType = Null,
              !.initialPosition = NoPoint,
              !.originalNodePosition = Origin,
              !.originalTextNodeShift = Origin,
              !.originalTextNodeConnectionShift = Origin]

onMouseLeftUpOrLeave(s, mousePosition) ==
    resetMouseEventParams(
        IF s.isDragging THEN enablePanzoom(onDragEnd(s))
        ELSE IF s.selectedElement # Null THEN enablePanzoom(callSelectNodeCallback(s, mousePosition))
        ELSE IF s.straightenedElement # Null THEN onStraightenEnd(s)
        ELSE s)

(***************************************************************************)
(* The bend-lines button of the viewer's button bar                        *)
(***************************************************************************)
bendLinesButtonClick(s) ==
    IF s.bendLines THEN disableLineBending(s) ELSE enableLineBending(s)

(***************************************************************************)
(* Construction: the options and the document the viewer is built with     *)
(***************************************************************************)
\* svgContent as its characters; the rendered document, reduced to its opening tag
SvgDocument == <<"<", "s", "v", "g", ">">>

Options(drag, select, bend, move, hover) ==
    [enableDragInteraction |-> drag, onRightClickCallback |-> FALSE,
     onSelectNodeCallback |-> select, onBendLineCallback |-> bend,
     onMoveNodeCallback |-> move, onMoveTextNodeCallback |-> move,
     onToggleHoverCallback |-> hover,
     addButtons |-> TRUE, hasMetadata |-> TRUE,
     hoverPositionPrecision |-> 5, svgContent |-> SvgDocument]

Configs ==
    { Options(TRUE, TRUE, TRUE, TRUE, TRUE),       \* every interaction and callback
      Options(FALSE, TRUE, TRUE, FALSE, FALSE),    \* selection only, with a bend-line callback
      Options(FALSE, FALSE, FALSE, FALSE, TRUE) }  \* no node interaction

\* pointer positions, in SVG coordinates (getMousePosition)
Positions == {Point(5, 3), Point(13, 3)}

NoBendingPoints == [e \in Edges |-> Undefined]

\* the bendingPoints of the edges in the metadata given to the constructor
Documents ==
    { [NoBendingPoints EXCEPT !["e1"] = List(<<>>)],
      [NoBendingPoints EXCEPT !["e1"] = List(<<Point(6, 4), Point(14, 4)>>),
                              !["e2"] = List(<<Point(2, 10)>>)] }

\* the bus of each side of the edges, as rendered
InitialBusNode ==
    [e \in Edges |->
        CASE e = "e1" -> <<"b1", "b3">>
          [] e = "e2" -> <<"b1", "b4">>
          [] e = "e3" -> <<"b3", "b4">>
          [] e = "e4" -> <<"b4", "b3">>
          [] e = "e5" -> <<"b1", "b2">>
          [] e = "e6" -> <<"b3", "b9">>]

\* NadViewerParameters.ZOOM_LEVELS_DEFAULT, sorted by the constructor
\* (zoomLevels.sort((a, b) => b - a))
DefaultZoomLevels ==
    <<4000000, 2400000, 1800000, 800000, 600000, 500000, 440000, 200000, 0>>

\* the ids of the legend box and of the legend edge of the nodes
RenderedLegends ==
    [n \in Nodes |-> [legendSvgId |-> NodeLegendSvgId[n],
                      legendEdgeSvgId |-> IF n = "vl1" THEN "t1-edge" ELSE Null]]

\* the children of textNodesSection, textEdgesSection and edgeInfosSection
\* as the server rendered them; the info of side i of edge e has id <<e, i>>
RenderedSections ==
    [legendBoxes |-> <<"t1">>, legendEdges |-> <<"t1-edge">>,
     edgeInfos |-> <<<<"e1", "1">>, <<"e1", "2">>, <<"e3", "1">>, <<"e3", "2">>>>]

\* dimensions.viewbox of the rendered document
RenderedViewBox == [x |-> -100000, y |-> -100000, width |-> 400000, height |-> 300000]

\* the fields of the level of detail and of the adaptive text zoom when the
\* options enable neither (ENABLE_LEVEL_OF_DETAIL_DEFAULT and
\* ENABLE_ADAPTIVE_ZOOM_DEFAULT are false): init makes no check
InitDisplay ==
    /\ zoomParameters = [enableLevelOfDetail |-> FALSE, enableAdaptiveTextZoom |-> FALSE,
                         adaptiveTextZoomThreshold |-> 600000]
    /\ zoomLevels = DefaultZoomLevels
    /\ legends = RenderedLegends
    /\ viewBox = RenderedViewBox
    /\ viewBoxObserved = FALSE
    /\ previousMaxDisplayedSize = 0
    /\ lastZoomLevel = 0
    /\ innerSvgClass = <<>>
    /\ sections = RenderedSections
    /\ toggleHovers = <<>>

InitFields ==
    /\ nodes = InitialNodePosition
    /\ selectedElement = Null
    /\ draggedElement = Null
    /\ draggedElementType = Null
    /\ isDragging = FALSE
    /\ initialPosition = NoPoint
    /\ straightenedElement = Null
    /\ originalNodePosition = Origin
    /\ panning = TRUE
    /\ bendLines = FALSE
    /\ bendableLines = <<>>
    /\ linePointIndexMap = EmptyMap
    /\ transform = [el \in Nodes \cup HandleIds |->
                        IF el \in Nodes THEN FormattedPoint(InitialNodePosition[el]) ELSE Origin]
    /\ textPosition = InitialTextPosition
    /\ hoveredElement = Null
    /\ hoveredElementPosition = Origin
    /\ isHoverCallbackUsed = FALSE
    /\ debounced = <<>>
    /\ calls = <<>>
    /\ edgesMap = {}
    /\ lastEvent = [name |-> "init", target |-> Null, shiftKey |-> FALSE, position |-> NoPoint]
    /\ handled = 0
    /\ bendSnapshot = <<>>
    /\ textNodes = InitialTextNodes
    /\ endTextEdge = Origin
    /\ originalTextNodeShift = Origin
    /\ originalTextNodeConnectionShift = Origin
    /\ polylines = InitialPolylines
    /\ callArgs = <<>>
    /\ callResult = <<>>

\* the viewer once init has rendered the document into the container
InitViewer ==
    /\ InitFields
    /\ InitDisplay
    /\ container = <<"nad-viewer">>
    /\ svgDraw = TRUE

Init ==
    /\ cfg \in Configs
    /\ bendingPoints \in Documents
    /\ busNode = InitialBusNode
    /\ InitViewer

(***************************************************************************)
(* History of the last bend-point creation                                 *)
(***************************************************************************)
Event(name, target, shiftKey, position) ==
    [name |-> name, target |-> target, shiftKey |-> shiftKey, position |-> position]

\* one more event is handled
Handled(event) ==
    /\ handled' = handled + 1
    /\ lastEvent' = event

\* the snapshot after an event that took the viewer from St to s
NextSnapshot(s, name) ==
    LET created == DOMAIN s.linePointIndexMap \ DOMAIN linePointIndexMap
        same == s.bendingPoints = bendingPoints /\ s.linePointIndexMap = linePointIndexMap
        snap == bendSnapshot[1]
    IN  IF name = "mousedown" /\ created # {}
        THEN LET h == CHOOSE x \in created : TRUE
             IN  <<[handle |-> h, edge |-> s.linePointIndexMap[h].edgeId,
                    bendingPoints |-> bendingPoints, linePointIndexMap |-> linePointIndexMap,
                    phase |-> "bent"]>>
        ELSE IF bendSnapshot = <<>> \/ snap.phase = "restored" THEN <<>>
        ELSE IF same THEN bendSnapshot
        ELSE IF name = "mousemove" /\ draggedElement = snap.handle
                /\ s.linePointIndexMap = linePointIndexMap
        THEN bendSnapshot
        ELSE IF name = "mouseup" /\ ~isDragging /\ selectedElement = Null
                /\ straightenedElement = snap.handle
                /\ snap.handle \in DOMAIN linePointIndexMap
        THEN <<[snap EXCEPT !.phase = "restored"]>>
        ELSE <<>>

(***************************************************************************)
(* Events                                                                  *)
(***************************************************************************)
\* the elements of the document a pointer event can target
Targets == Nodes \cup Edges \cup {Background} \cup DOMAIN linePointIndexMap

\* the press is one that onMouseLeftDown hands to createEdgeBendPoint with a line
CreatesBendPoint(s, target, shiftKey, position) ==
    LET targetElement == TargetElement(s, target, position)
    IN  /\ ~shiftKey
        /\ s.bendLines
        /\ getDraggableFrom(targetElement) = Null
        /\ getBendableLineFrom(targetElement, s.bendableLines) # Null

MouseLeftDown(target, shiftKey, position) ==
    /\ handled < MaxEvents
    /\ PointerHandlersRegistered
    /\ target \in Targets
    /\ CreatesBendPoint(St, target, shiftKey, position) => TotalPoints(bendingPoints) < MaxHandles
    /\ \E s \in {onMouseLeftDown(St, target, shiftKey, position)} :
           /\ Apply(s)
           /\ bendSnapshot' = NextSnapshot(s, "mousedown")
    /\ Handled(Event("mousedown", target, shiftKey, position))
    /\ UNCHANGED <<displayVars, toggleHovers, cfg, busNode, edgesMap, container, svgDraw, callArgs, callResult>>

MouseMove(target, position) ==
    /\ handled < MaxEvents
    /\ PointerHandlersRegistered
    /\ target \in Targets
    /\ \E s \in {onMouseMove(St, target, position)} :
           /\ Apply(s)
           /\ bendSnapshot' = NextSnapshot(s, "mousemove")
    /\ Handled(Event("mousemove", target, FALSE, position))
    /\ UNCHANGED <<displayVars, toggleHovers, cfg, busNode, edgesMap, container, svgDraw, callArgs, callResult>>

MouseLeftUpOrLeave(position) ==
    /\ handled < MaxEvents
    /\ PointerHandlersRegistered
    /\ \E s \in {onMouseLeftUpOrLeave(St, position)} :
           /\ Apply(s)
           /\ bendSnapshot' = NextSnapshot(s, "mouseup")
    /\ Handled(Event("mouseup", Null, FALSE, position))
    /\ UNCHANGED <<displayVars, toggleHovers, cfg, busNode, edgesMap, container, svgDraw, callArgs, callResult>>

MouseOver(target, position) ==
    /\ handled < MaxEvents
    /\ HoverHandlersRegistered
    /\ target \in Targets
    /\ Apply(onHover(St, target, position))
    /\ Handled(Event("mouseover", target, FALSE, position))
    /\ UNCHANGED <<displayVars, toggleHovers, cfg, busNode, edgesMap, bendSnapshot, container, svgDraw, callArgs, callResult>>

\* the debounced hover callback fires
DebounceFire ==
    /\ handled < MaxEvents
    /\ debounced # <<>>
    /\ Apply([St EXCEPT !.debounced = <<>>,
                        !.calls = IF cfg.onToggleHoverCallback
                                  THEN <<ToggleHoverCall(debounced[1])>> ELSE <<>>])
    /\ Handled(Event("debounce", Null, FALSE, NoPoint))
    /\ UNCHANGED <<displayVars, toggleHovers, cfg, busNode, edgesMap, bendSnapshot, container, svgDraw, callArgs, callResult>>

BendLinesButtonClick ==
    /\ handled < MaxEvents
    /\ cfg.addButtons
    /\ \E s \in {bendLinesButtonClick(St)} :
           /\ Apply(s)
           /\ bendSnapshot' = NextSnapshot(s, "click")
    /\ Handled(Event("click", "bendLinesButton", FALSE, NoPoint))
    /\ UNCHANGED <<displayVars, toggleHovers, cfg, busNode, edgesMap, container, svgDraw, callArgs, callResult>>

\* the events explored: presses anywhere, moves and releases at one place
PressTargets == {"vl1", "e1", "e2", "e3"} \cup HandleIds
MovePositions == {Point(17, 1)}
ReleasePositions == {Point(13, 3)}
HoverTargets == {"e1"}
HoverPositions == {Point(13, 3)}

Next ==
    \/ \E target \in PressTargets, shiftKey \in BOOLEAN, position \in Positions :
            MouseLeftDown(target, shiftKey, position)
    \/ \E target \in {"e1", Background}, position \in MovePositions :
            MouseMove(target, position)
    \/ \E position \in ReleasePositions : MouseLeftUpOrLeave(position)
    \/ \E target \in HoverTargets, position \in HoverPositions :
            MouseOver(target, position)
    \/ DebounceFire
    \/ BendLinesButtonClick

Spec == Init /\ [][Next]_vars

(***************************************************************************)
(* The branch state patch API                                              *)
(***************************************************************************)
\* diagramMetadata.busNodes.find((busNode) => busNode.equipmentId === busId)
FindBusNodeByEquipmentId(busId) ==
    IF \E b \in BusNodes : BusNodeMetadata[b].equipmentId = busId
    THEN CHOOSE b \in BusNodes : BusNodeMetadata[b].equipmentId = busId
    ELSE Null

\* diagramMetadata.edges.find((edge) => edge.equipmentId == branchId)
FindEdgeByEquipmentId(branchId) ==
    IF cfg.hasMetadata /\ \E e \in Edges : EdgeMetadata[e].equipmentId = branchId
    THEN CHOOSE e \in Edges : EdgeMetadata[e].equipmentId = branchId
    ELSE Null

\* setBranchBusConnection without the test of the bus found: the side takes
\* targetBusNode?.svgId
setBranchBusConnectionOfAnyBus(bn, edge, side, busId) ==
    IF busId = Null \/ busId = "" THEN bn
    ELSE [bn EXCEPT ![edge][side] = FindBusNodeByEquipmentId(busId)]

\* setBranchBusConnection on the busNode1 / busNode2 of the edges;
\* side is 1 or 2, busId is Null for undefined
setBranchBusConnection(bn, edge, side, busId) ==
    IF busId = Null \/ busId = "" THEN bn
    ELSE LET targetBusNode == FindBusNodeByEquipmentId(busId)
             currentBusNodeId == bn[edge][side]
             currentFound == currentBusNodeId \in BusNodes
         IN  IF targetBusNode = Null THEN bn
             ELSE IF currentFound /\ BusNodeMetadata[currentBusNodeId].vlNode
                                        # BusNodeMetadata[targetBusNode].vlNode
             THEN bn
             ELSE [bn EXCEPT ![edge][side] = targetBusNode]

\* the body of the forEach of setBranchStates, on [busNode, edgesMap, polylines]
setBranchState(m, branchState) ==
    LET known == branchState.branchId \in m.edgesMap
        found == FindEdgeByEquipmentId(branchState.branchId)
    IN  IF ~known /\ found = Null THEN m
        ELSE IF ~known /\ EdgeMetadata[found].node1 = EdgeMetadata[found].node2 THEN m
        ELSE LET edge == FindEdge(found)
                 bn1 == setBranchBusConnection(m.busNode, edge, 1, branchState.connectedBus1)
                 bn2 == setBranchBusConnection(bn1, edge, 2, branchState.connectedBus2)
                 s == [St EXCEPT !.busNode = bn2, !.polylines = m.polylines]
                 halfEdges == viewerGetHalfEdges(s, edge, IndexInGroup(edge), Len(GroupOf(edge)))
                 changed(busId) == busId # Null /\ busId # ""
             IN  [busNode |-> bn2, edgesMap |-> m.edgesMap \cup {branchState.branchId},
                  polylines |->
                     IF changed(branchState.connectedBus1) \/ changed(branchState.connectedBus2)
                     THEN redrawBranchEdge(s, edge, halfEdges).polylines
                     ELSE m.polylines]

RECURSIVE setBranchStates(_, _)
setBranchStates(m, branchStates) ==
    IF branchStates = <<>> THEN m
    ELSE setBranchStates(setBranchState(m, Head(branchStates)), Tail(branchStates))

\* the branch states given to setBranchStates
BranchIds == {"L1", "T1", "L4", "LX"}
BusIds == {Null, "B2", "B3", "BX"}
BranchStates ==
    [branchId : BranchIds, connectedBus1 : BusIds, connectedBus2 : BusIds]

\* the bus of an edge side in the metadata given to the constructor: the
\* rendered one, none, or one the document does not describe
InitialBusNodes ==
    LET choices(e, side) == {InitialBusNode[e][side], "", "bX"}
    IN  { [InitialBusNode EXCEPT !["e1"] = <<c[1], c[2]>>, !["e3"] = <<c[3], c[4]>>] :
            c \in choices("e1", 1) \X choices("e1", 2) \X choices("e3", 1) \X choices("e3", 2) }

InitBranch ==
    /\ cfg = Options(TRUE, TRUE, TRUE, TRUE, TRUE)
    /\ bendingPoints = NoBendingPoints
    /\ busNode \in InitialBusNodes
    /\ InitViewer

SetBranchStates(branchStates) ==
    /\ handled < MaxEvents
    /\ handled' = handled + 1
    /\ \E m \in {setBranchStates([busNode |-> busNode, edgesMap |-> edgesMap,
                                  polylines |-> polylines], branchStates)} :
          /\ busNode' = m.busNode
          /\ edgesMap' = m.edgesMap
          /\ polylines' = m.polylines
    /\ lastEvent' = Event("setBranchStates", Null, FALSE, NoPoint)
    /\ UNCHANGED <<displayVars, toggleHovers, cfg, nodes, bendingPoints, selectedElement, draggedElement, draggedElementType,
                   isDragging, initialPosition, straightenedElement, originalNodePosition, panning,
                   bendLines, bendableLines, linePointIndexMap, transform, hoveredElement,
                   hoveredElementPosition, isHoverCallbackUsed, debounced, calls,
                   bendSnapshot, textNodes, endTextEdge, originalTextNodeShift,
                   originalTextNodeConnectionShift, textPosition, container, svgDraw,
                   callArgs, callResult>>

NextBranch ==
    \E first \in BranchStates : SetBranchStates(<<first>>)

SpecBranch == InitBranch /\ [][NextBranch]_vars

(***************************************************************************)
(* Properties                                                              *)
(***************************************************************************)
\* the handles mapped to an edge
HandlesOf(map, e) == {h \in DOMAIN map : map[h].edgeId = e}

IsBendableLineId(e) == \E k \in 1..Len(bendableLines) : bendableLines[k] = e

\* the release that completes the straightening of the armed handle
StraightenCompletes ==
    /\ lastEvent'.name = "mouseup"
    /\ ~isDragging
    /\ selectedElement = Null
    /\ straightenedElement \in DOMAIN linePointIndexMap

\* the press, without shift, that created a bend handle
BendPointCreated ==
    /\ lastEvent'.name = "mousedown"
    /\ DOMAIN linePointIndexMap' # DOMAIN linePointIndexMap

\* the element a press resolves to, read in the state before the press
PressedElement == TargetElement(St, lastEvent'.target, lastEvent'.position)

HandleIndicesMatchPoints ==
    \A e \in Edges :
        LET hs == HandlesOf(linePointIndexMap, e)
        IN  IF bendLines /\ IsBendableLineId(e)
            THEN /\ {linePointIndexMap[h].index : h \in hs} = 0..(Len(bendingPoints[e].pts) - 1)
                 /\ Cardinality(hs) = Len(bendingPoints[e].pts)
            ELSE hs = {}

RemovedHandleIsUnmapped ==
    /\ StraightenCompletes => straightenedElement \notin DOMAIN linePointIndexMap'
    /\ (lastEvent'.name = "click" /\ bendLines) => linePointIndexMap' = EmptyMap

C2_BendInsertShifts ==
    [][BendPointCreated =>
        \E h \in DOMAIN linePointIndexMap' \ DOMAIN linePointIndexMap :
            LET e == linePointIndexMap'[h].edgeId
                i == linePointIndexMap'[h].index
                r == addPointToList(bendingPoints[e], nodes[EdgeMetadata[e].node1],
                                    nodes[EdgeMetadata[e].node2], lastEvent'.position)
            IN  /\ DOMAIN linePointIndexMap' = DOMAIN linePointIndexMap \cup {h}
                /\ e = PressedElement
                /\ i = r.index
                /\ bendingPoints'[e] = r.linePoints
                /\ \A f \in Edges \ {e} : bendingPoints'[f] = bendingPoints[f]
                /\ \A g \in DOMAIN linePointIndexMap :
                      linePointIndexMap'[g] =
                          IF linePointIndexMap[g].edgeId = e /\ linePointIndexMap[g].index >= i
                          THEN [edgeId |-> e, index |-> linePointIndexMap[g].index + 1]
                          ELSE linePointIndexMap[g]]_vars

\* a point was inserted between two handles of its edge while another edge
\* has a handle too
C2_Witness ==
    /\ lastEvent.name = "mousedown"
    /\ bendSnapshot # <<>>
    /\ bendSnapshot[1].phase = "bent"
    /\ LET snap == bendSnapshot[1]
           i == linePointIndexMap[snap.handle].index
       IN  /\ \E g \in HandlesOf(snap.linePointIndexMap, snap.edge) :
                  snap.linePointIndexMap[g].index >= i
           /\ \E g \in HandlesOf(snap.linePointIndexMap, snap.edge) :
                  snap.linePointIndexMap[g].index < i
           /\ \E g \in DOMAIN snap.linePointIndexMap : snap.linePointIndexMap[g].edgeId # snap.edge

StraightenedKind(lower, higher) ==
    /\ lastEvent.name = "mouseup"
    /\ bendSnapshot # <<>>
    /\ bendSnapshot[1].phase = "restored"
    /\ LET snap == bendSnapshot[1]
           others == HandlesOf(linePointIndexMap, snap.edge)
       IN  /\ Cardinality(others) = lower + higher
           /\ \E below \in SUBSET others :
                 /\ Cardinality(below) = lower
                 /\ \A g \in below : \A k \in others \ below :
                        linePointIndexMap[g].index < linePointIndexMap[k].index
                 /\ \A k \in others \ below :
                        snap.linePointIndexMap[k].index = linePointIndexMap[k].index

Restored == bendSnapshot # <<>> /\ bendSnapshot[1].phase = "restored"

RestoredAsBefore ==
    LET snap == bendSnapshot[1]
    IN  /\ bendingPoints[snap.edge] = snap.bendingPoints[snap.edge]
        /\ \A g \in HandlesOf(snap.linePointIndexMap, snap.edge) :
              /\ g \in DOMAIN linePointIndexMap
              /\ linePointIndexMap[g] = snap.linePointIndexMap[g]

\* C4 (as claimed): for any pre-existing bendingPoints value, undefined or a
\* list, creating a bend point and straightening that same handle right away
\* restores the bendingPoints of the edge and the indices of its other handles.
C4_BendStraightenRestores == Restored => RestoredAsBefore

\* C4 (amended): the same for a pre-existing value that is undefined or a
\* list with at least one point; an empty list comes back as undefined.
C4_BendStraightenRestoresAmended ==
    Restored =>
        LET snap == bendSnapshot[1]
            before == snap.bendingPoints[snap.edge]
        IN  IF before.def /\ before.pts = <<>>
            THEN /\ bendingPoints[snap.edge] = Undefined
                 /\ HandlesOf(linePointIndexMap, snap.edge) = {}
            ELSE RestoredAsBefore

\* a bend point created between two handles was straightened again
C4_Witness ==
    /\ Restored
    /\ Len(bendSnapshot[1].bendingPoints[bendSnapshot[1].edge].pts) = 2
    /\ Cardinality(HandlesOf(linePointIndexMap, bendSnapshot[1].edge)) = 2

\* C5: when a straighten completes on release and a bend-line callback is
\* configured, the callback is invoked exactly once, with the edge's svgId
\* and equipmentId, its remaining bend points and the label STRAIGHTEN.
C5_StraightenCallback ==
    [][(StraightenCompletes /\ cfg.onBendLineCallback) =>
        LET e == linePointIndexMap[straightenedElement].edgeId
        IN  calls' = <<[cb |-> "onBendLineCallback", svgId |-> e,
                        equipmentId |-> EdgeMetadata[e].equipmentId,
                        type |-> getStringEdgeType(e),
                        linePoints |-> bendingPoints'[e],
                        lineOperation |-> "STRAIGHTEN"]>>]_vars

\* C6: pan/zoom is enabled again once a release has been handled, whatever
\* the press before it armed and whether or not the pointer moved.
C6_ReleaseEnablesPanzoom == lastEvent.name = "mouseup" => panning

\* C7: after every handled release the controller is idle.
C7_ReleaseIsIdle ==
    lastEvent.name = "mouseup" =>
        /\ selectedElement = Null
        /\ draggedElement = Null
        /\ draggedElementType = Null
        /\ initialPosition = NoPoint
        /\ straightenedElement = Null
        /\ ~isDragging

\* a press without shift, and what the element it resolves to allows
PressNoShift == lastEvent'.name = "mousedown" /\ ~lastEvent'.shiftKey

DragAllowed == cfg.enableDragInteraction /\ getDraggableFrom(PressedElement) # Null

BendAllowed ==
    /\ bendLines
    /\ getDraggableFrom(PressedElement) = Null
    /\ getBendableLineFrom(PressedElement, bendableLines) # Null

CreatedHandles == DOMAIN linePointIndexMap' \ DOMAIN linePointIndexMap

\* C8 (as claimed): on a press without shift a drag is armed (draggedElement
\* set) if and only if enableDragInteraction is true and the hit resolves to
\* a draggable element; a bend point is created if and only if bend mode is
\* on, the hit resolves to no draggable element and to a registered bendable
\* line; otherwise neither happens.
C8_PressArms ==
    [][(PressNoShift /\ draggedElement = Null) =>
        /\ (draggedElement' # Null) <=> DragAllowed
        /\ (CreatedHandles # {}) <=> BendAllowed]_vars

\* C8 (amended): on a press without shift, an existing element is armed for
\* a drag if and only if enableDragInteraction is true and the hit resolves
\* to a draggable element; a bend point is created at the pointer if and only
\* if bend mode is on, the hit resolves to no draggable element and to a
\* registered bendable line, and then the new handle is armed and dragging
\* (draggedElement set to it), whatever enableDragInteraction is; otherwise
\* draggedElement, bendingPoints and the handles are left as they were.
C8_PressArmsAmended ==
    [][PressNoShift =>
        /\ (CreatedHandles # {}) <=> BendAllowed
        /\ DragAllowed =>
              /\ draggedElement' = getDraggableFrom(PressedElement)
              /\ isDragging' = isDragging
              /\ bendingPoints' = bendingPoints
        /\ BendAllowed =>
              \E h \in CreatedHandles :
                  /\ CreatedHandles = {h}
                  /\ draggedElement' = h
                  /\ draggedElementType' = "BENT_SQUARE"
                  /\ isDragging'
                  /\ ~panning'
                  /\ linePointIndexMap'[h].edgeId = PressedElement
                  /\ transform'[h] = FormattedPoint(lastEvent'.position)
        /\ (~DragAllowed /\ ~BendAllowed) =>
              /\ draggedElement' = draggedElement
              /\ bendingPoints' = bendingPoints
              /\ linePointIndexMap' = linePointIndexMap]_vars

\* a bend point was created by a press while enableDragInteraction is false
C8_Witness ==
    /\ lastEvent.name = "mousedown"
    /\ ~lastEvent.shiftKey
    /\ ~cfg.enableDragInteraction
    /\ draggedElement \in DOMAIN linePointIndexMap
    /\ isDragging
    /\ bendSnapshot # <<>>
    /\ bendSnapshot[1].handle = draggedElement

\* C9: on a press with shift no drag is armed and no bend point is created;
\* a straighten is armed (straightenedElement set, pan/zoom disabled) if and
\* only if bend mode is on and the hit resolves to an existing bend handle
\* whose edge has bending points; bendingPoints is not modified by the press.
C9_ShiftPressArmsStraighten ==
    [][(lastEvent'.name = "mousedown" /\ lastEvent'.shiftKey) =>
        LET hit == PressedElement
            armed == /\ bendLines
                     /\ isBendable(hit)
                     /\ hit \in DOMAIN linePointIndexMap
                     /\ bendingPoints[linePointIndexMap[hit].edgeId].def
        IN  /\ draggedElement' = draggedElement
            /\ draggedElementType' = draggedElementType
            /\ isDragging' = isDragging
            /\ bendingPoints' = bendingPoints
            /\ linePointIndexMap' = linePointIndexMap
            /\ armed => (straightenedElement' = hit /\ ~panning')
            /\ ~armed => straightenedElement' = straightenedElement]_vars

\* a press with shift on a bend handle armed its straightening
C9_Witness ==
    /\ lastEvent.name = "mousedown"
    /\ lastEvent.shiftKey
    /\ straightenedElement = lastEvent.target
    /\ straightenedElement \in DOMAIN linePointIndexMap
    /\ draggedElement = Null
    /\ ~panning

\* C10: setBranchStates never assigns a side of an edge to a bus of another
\* voltage level than the edge's node on that side, whatever the current bus
\* of the side is.
C10_BusOfSameVoltageLevel ==
    [][\A e \in Edges : \A side \in 1..2 :
          busNode'[e][side] # busNode[e][side] =>
              /\ busNode'[e][side] \in BusNodes
              /\ BusNodeMetadata[busNode'[e][side]].vlNode =
                    (IF side = 1 THEN EdgeMetadata[e].node1 ELSE EdgeMetadata[e].node2)]_vars

(***************************************************************************)
(* Hovering: the pointer events of the document, whether or not init       *)
(* registered a handler for them                                           *)
(***************************************************************************)
HoverConfigs ==
    { Options(FALSE, FALSE, FALSE, FALSE, TRUE),   \* only onToggleHoverCallback
      Options(FALSE, TRUE, FALSE, FALSE, TRUE),    \* selection and hover
      Options(TRUE, TRUE, TRUE, TRUE, TRUE) }      \* every interaction and callback

InitHover ==
    /\ cfg \in HoverConfigs
    /\ bendingPoints = NoBendingPoints
    /\ busNode = InitialBusNode
    /\ InitViewer

\* a mouseover reaches onHover when init registered it
PointerOver(target, position) ==
    /\ handled < MaxEvents
    /\ Apply(IF HoverHandlersRegistered THEN onHover(St, target, position) ELSE St)
    /\ Handled(Event("mouseover", target, FALSE, position))
    /\ UNCHANGED <<displayVars, toggleHovers, cfg, busNode, edgesMap, bendSnapshot, container, svgDraw, callArgs, callResult>>

\* a mousemove reaches onMouseMove when init registered it
PointerMove(target, position) ==
    /\ handled < MaxEvents
    /\ \E s \in {IF PointerHandlersRegistered THEN onMouseMove(St, target, position) ELSE St} :
           /\ Apply(s)
           /\ bendSnapshot' = NextSnapshot(s, "mousemove")
    /\ Handled(Event("mousemove", target, FALSE, position))
    /\ UNCHANGED <<displayVars, toggleHovers, cfg, busNode, edgesMap, container, svgDraw, callArgs, callResult>>

\* a left mousedown reaches onMouseLeftDown when init registered it
PointerDown(target, shiftKey, position) ==
    /\ handled < MaxEvents
    /\ (PointerHandlersRegistered /\ CreatesBendPoint(St, target, shiftKey, position))
            => TotalPoints(bendingPoints) < MaxHandles
    /\ \E s \in {IF PointerHandlersRegistered THEN onMouseLeftDown(St, target, shiftKey, position)
                 ELSE St} :
           /\ Apply(s)
           /\ bendSnapshot' = NextSnapshot(s, "mousedown")
    /\ Handled(Event("mousedown", target, shiftKey, position))
    /\ UNCHANGED <<displayVars, toggleHovers, cfg, busNode, edgesMap, container, svgDraw, callArgs, callResult>>

\* a left mouseup or a mouseleave reaches onMouseLeftUpOrLeave when init registered it
PointerUp(position) ==
    /\ handled < MaxEvents
    /\ \E s \in {IF PointerHandlersRegistered THEN onMouseLeftUpOrLeave(St, position) ELSE St} :
           /\ Apply(s)
           /\ bendSnapshot' = NextSnapshot(s, "mouseup")
    /\ Handled(Event("mouseup", Null, FALSE, position))
    /\ UNCHANGED <<displayVars, toggleHovers, cfg, busNode, edgesMap, container, svgDraw, callArgs, callResult>>

HoverOverTargets == {"e1", "vl1", Background}

NextHover ==
    \/ \E target \in HoverOverTargets, position \in Positions : PointerOver(target, position)
    \/ \E target \in HoverOverTargets, position \in Positions : PointerMove(target, position)
    \/ DebounceFire

SpecHover == InitHover /\ [][NextHover]_vars

\* the toggle-hover(true) call of the element, once the debounce delay is over
HoverCallOf(element) ==
    IF element \in Nodes
    THEN [hovered |-> TRUE, equipmentId |-> NodeEquipmentId[element],
          equipmentType |-> "VOLTAGE_LEVEL"]
    ELSE [hovered |-> TRUE, equipmentId |-> EdgeMetadata[element].equipmentId,
          equipmentType |-> getStringEdgeType(element)]

\* C11: with metadata present and onToggleHoverCallback configured, whatever
\* the drag, select and right-click configuration, once the pointer has
\* entered a hoverable element and moved over it (no drag under way), the
\* toggle-hover(true) call for that element is scheduled, so that it is
\* delivered when the debounce delay is over.
C11_HoverSchedulesToggleHover ==
    ( /\ cfg.hasMetadata
      /\ cfg.onToggleHoverCallback
      /\ lastEvent.name = "mousemove"
      /\ draggedElement = Null
      /\ hoveredElement # Null
      /\ getHoverableFrom(lastEvent.target) = hoveredElement )
    => /\ debounced # <<>>
       /\ [hovered |-> debounced[1].hovered, equipmentId |-> debounced[1].equipmentId,
           equipmentType |-> debounced[1].equipmentType] = HoverCallOf(hoveredElement)

(***************************************************************************)
(* A viewer built without metadata (diagramMetadata is null)               *)
(***************************************************************************)
NoMetadataConfigs == {[c EXCEPT !.hasMetadata = FALSE] : c \in Configs \cup HoverConfigs}

InitNoMetadata ==
    /\ cfg \in NoMetadataConfigs
    /\ bendingPoints = NoBendingPoints
    /\ busNode = InitialBusNode
    /\ InitViewer

\* the public moveNodeToCoordinates(equipmentId, x, y)
MoveNodeToCoordinates(equipmentId, x, y) ==
    /\ handled < MaxEvents
    /\ Apply(moveNodeToCoordinates(St, equipmentId, x, y))
    /\ callResult' = <<"returned">>
    /\ Handled([name |-> "moveNodeToCoordinates", target |-> equipmentId, shiftKey |-> FALSE,
                position |-> Point(x, y)])
    /\ UNCHANGED <<displayVars, toggleHovers, cfg, busNode, edgesMap, bendSnapshot, container, svgDraw, callArgs>>

NextNoMetadata ==
    \/ \E target \in {"vl1", "e1", "t1"}, shiftKey \in BOOLEAN, position \in Positions :
            PointerDown(target, shiftKey, position)
    \/ \E target \in HoverOverTargets, position \in Positions : PointerMove(target, position)
    \/ \E position \in ReleasePositions : PointerUp(position)
    \/ \E target \in HoverOverTargets, position \in Positions : PointerOver(target, position)
    \/ BendLinesButtonClick
    \/ \E branchState \in {b \in BranchStates : b.branchId = "L1"} : SetBranchStates(<<branchState>>)
    \/ \E x \in {4, 7} : MoveNodeToCoordinates("VL1", x, 2)

SpecNoMetadata == InitNoMetadata /\ [][NextNoMetadata]_vars

HasSvgTag(svgContent) ==
    \E i \in 1..(Len(svgContent) - 3) :
        /\ SubSeq(svgContent, i, i + 3) = <<"<", "s", "v", "g">>
        /\ \E j \in (i + 4)..Len(svgContent) : svgContent[j] = ">"

\* getDimensionsFromSvg() is not null
getDimensionsFromSvg(svgContent) == HasSvgTag(svgContent)

\* init clearing the container before it looks at the content
initClearsFirst(cont, svgContent) ==
    IF svgContent = <<>> \/ ~getDimensionsFromSvg(svgContent)
    THEN [container |-> <<>>, svgDraw |-> FALSE]
    ELSE [container |-> <<"nad-viewer">>, svgDraw |-> TRUE]

\* init: the children of the container and whether svgDraw was created
init(cont, svgContent) ==
    IF svgContent = <<>> THEN [container |-> cont, svgDraw |-> FALSE]
    ELSE IF ~getDimensionsFromSvg(svgContent) THEN [container |-> cont, svgDraw |-> FALSE]
    ELSE [container |-> <<"nad-viewer">>, svgDraw |-> TRUE]

\* getSvgContent
getSvgContent == cfg.svgContent

SvgContents ==
    { <<>>, SvgDocument, <<"<", "s", "v", "g">>, <<"<", "g", ">">>, <<"s", "v", "g", ">">>,
      <<"<", "s", "v", "g", " ", ">", "<", "g", ">">> }

\* before new NetworkAreaDiagramViewer(container, svgContent, metadata, options)
InitCreate ==
    /\ cfg \in {[c EXCEPT !.svgContent = content] : c \in Configs, content \in SvgContents}
    /\ bendingPoints = NoBendingPoints
    /\ busNode = InitialBusNode
    /\ InitFields
    /\ InitDisplay
    /\ container \in {<<>>, <<"previous">>}
    /\ svgDraw = FALSE

Constructed == lastEvent.name # "init"

\* the constructor, which ends with init(); callArgs keeps the content and
\* the children of the container it was given
Constructor ==
    /\ ~Constructed
    /\ \E r \in {init(container, cfg.svgContent)} :
           /\ container' = r.container
           /\ svgDraw' = r.svgDraw
    /\ callArgs' = <<cfg.svgContent, container>>
    /\ callResult' = <<"returned">>
    /\ lastEvent' = Event("constructor", Null, FALSE, NoPoint)
    /\ UNCHANGED <<displayVars, toggleHovers, cfg, nodes, bendingPoints, busNode, edgesMap, selectedElement, draggedElement,
                   draggedElementType, isDragging, initialPosition, straightenedElement,
                   originalNodePosition, panning, bendLines, bendableLines, linePointIndexMap,
                   transform, hoveredElement, hoveredElementPosition, isHoverCallbackUsed,
                   debounced, calls, handled, bendSnapshot, textNodes, endTextEdge,
                   originalTextNodeShift, originalTextNodeConnectionShift, textPosition,
                   polylines>>

NextCreate ==
    \/ Constructor
    \/ \E x \in {4, 7} : Constructed /\ MoveNodeToCoordinates("VL1", x, 2)
    \/ \E target \in {"vl1", "e1"}, position \in Positions :
            Constructed /\ PointerDown(target, FALSE, position)
    \/ \E position \in MovePositions : Constructed /\ PointerMove(Background, position)

SpecCreate == InitCreate /\ [][NextCreate]_vars

MoveConfigs ==
    { Options(TRUE, TRUE, TRUE, TRUE, FALSE),      \* drag enabled, with every callback but hover
      Options(FALSE, TRUE, TRUE, TRUE, FALSE) }    \* the same with enableDragInteraction false

InitMove ==
    /\ cfg \in MoveConfigs
    /\ bendingPoints = NoBendingPoints
    /\ busNode = InitialBusNode
    /\ InitViewer

\* the public moveTextNodeToCoordinates
MoveTextNodeToCoordinates(equipmentId, shiftX, shiftY, connectionShiftX, connectionShiftY) ==
    /\ handled < MaxEvents
    /\ Apply(moveTextNodeToCoordinates(St, equipmentId, shiftX, shiftY,
                                       connectionShiftX, connectionShiftY))
    /\ Handled([name |-> "moveTextNodeToCoordinates", target |-> equipmentId, shiftKey |-> FALSE,
                position |-> Point(shiftX, shiftY)])
    /\ UNCHANGED <<displayVars, toggleHovers, cfg, busNode, edgesMap, bendSnapshot, container, svgDraw, callArgs, callResult>>

MoveTargets == {"vl1", "vl2", "t1", "e1"}
DragPositions == {Point(17, 1), Point(40, 20)}
\* the state of the half-visible line L5, with the bus it is already on
SameBranchState == [branchId |-> "L5", connectedBus1 |-> "B3", connectedBus2 |-> Null]

NextMove ==
    \/ \E target \in MoveTargets : PointerDown(target, FALSE, Point(5, 3))
    \/ \E position \in DragPositions : PointerMove(Background, position)
    \/ \E position \in ReleasePositions : PointerUp(position)
    \/ BendLinesButtonClick
    \/ \E equipmentId \in {"VL1", "VL2"} : MoveNodeToCoordinates(equipmentId, 61, 20)
    \/ MoveTextNodeToCoordinates("VL1", 30, 11, 4, 2)
    \/ SetBranchStates(<<SameBranchState>>)

SpecMove == InitMove /\ [][NextMove]_vars

PointerEventNames == {"mousedown", "mousemove", "mouseup", "mouseover"}

\* C14: with enableDragInteraction false, no pointer event changes the
\* position of a node or the shift or connection shift of a text node, nor
\* invokes the move-node or the move-text-node callback.
C14_NoDragWithoutDragInteraction ==
    [][(~cfg.enableDragInteraction /\ lastEvent'.name \in PointerEventNames) =>
            /\ nodes' = nodes
            /\ textNodes' = textNodes
            /\ \A i \in 1..Len(calls') :
                    calls'[i].cb \notin {"onMoveNodeCallback", "onMoveTextNodeCallback"}]_vars

\* drag disabled: a node was pressed, then the pointer moved, bend mode being on
C14_Witness ==
    /\ ~cfg.enableDragInteraction
    /\ bendLines
    /\ lastEvent.name = "mousemove"
    /\ selectedElement = "vl1"

\* the node an event moves: the one dragged, or the one of the equipment
\* given to moveNodeToCoordinates
MovedNode ==
    IF lastEvent'.name = "mousemove" /\ draggedElementType' = "VOLTAGE_LEVEL_NODE"
    THEN draggedElement'
    ELSE IF lastEvent'.name = "moveNodeToCoordinates"
    THEN getNodeIdFromEquipmentId(lastEvent'.target)
    ELSE Null

\* C15: a drag move of node N, or moveNodeToCoordinates on N, sets N.x and
\* N.y to the target rounded to 2 decimals (a multiple of 0.01 at most
\* 0.005 away) and changes nothing else in the metadata: not the other
\* nodes, the text node shifts, the bending points or the bus assignments.
C15_MoveChangesOnlyTheNode ==
    [][MovedNode # Null =>
            /\ \A k \in 1..2 :
                  /\ nodes'[MovedNode][k] % 2 = 0
                  /\ nodes'[MovedNode][k] - lastEvent'.position[k] \in {0, 1}
            /\ \A n \in Nodes \ {MovedNode} : nodes'[n] = nodes[n]
            /\ textNodes' = textNodes
            /\ bendingPoints' = bendingPoints
            /\ busNode' = busNode
            /\ edgesMap' = edgesMap]_vars

\* vl2 is being dragged and has followed the pointer to (17, 1)
C15_Witness ==
    /\ lastEvent.name = "mousemove"
    /\ draggedElement = "vl2"
    /\ isDragging
    /\ lastEvent.position = Point(17, 1)
    /\ nodes["vl2"] = Point(18, 2)

SamePoints(p, q) ==
    /\ Len(p) = Len(q)
    /\ \A i \in 1..Len(p) :
          \/ p[i] = q[i]
          \/ /\ ~IsNaNPoint(p[i]) /\ ~IsNaNPoint(q[i])
             /\ \A k \in 1..2 : p[i][k] - q[i][k] \in -2..2

\* C17: recomputing the half-edges of an edge from unchanged metadata gives
\* the same points again (within the rounding to 2 decimals): a
\* setBranchStates that leaves every bus where it is redraws each
\* half-visible edge, whose points are read back from the rendered
\* polyline, exactly where it was, after any drags and programmatic moves.
C17_HalfEdgesIdempotent ==
    [][(lastEvent'.name = "setBranchStates" /\ busNode' = busNode /\ nodes' = nodes) =>
            \A e \in HalfVisibleEdges : SamePoints(polylines'[e], polylines[e])]_vars

(***************************************************************************)
(* The half-edge functions on their own: one call per behaviour, its       *)
(* arguments in callArgs and what it returns in callResult                 *)
(***************************************************************************)
MaxGroup == 3

\* the two nodes of a group of parallel edges: vl1 at the origin, vl2 in one
\* of three directions from it
GroupNodePoints ==
    { [n \in {"vl1", "vl2"} |-> IF n = "vl1" THEN Origin ELSE p] :
        p \in {Point(24000, 0), Point(0, 24000), Point(-17000, 17000)} }

GroupBendingPoints ==
    { Undefined, List(<<>>), List(<<Point(9000, 12000)>>),
      List(<<Point(9000, 12000), Point(-6000, 8000)>>) }

\* edge i of a group: from vl1 to vl2, or from vl2 to vl1
GroupEdge(forward, bus1, bus2, bends) ==
    [node1 |-> IF forward THEN "vl1" ELSE "vl2", node2 |-> IF forward THEN "vl2" ELSE "vl1",
     busNode1 |-> bus1, busNode2 |-> bus2, bendingPoints |-> bends, type |-> "LineEdge"]

\* the edges of a group, edge i forward or not, all on the same buses and
\* with the same bending points
GroupEdges(forward, bus1, bus2, bends) ==
    [i \in 1..Len(forward) |-> GroupEdge(forward[i], bus1, bus2, bends)]

\* redrawEdgeGroup: getHalfEdges(edges[iEdge], iEdge, edges.length) for each edge
RedrawEdgeGroupCall(forward, bus1, bus2, bends, nodePoints) ==
    /\ callArgs = <<>>
    /\ callArgs' = <<"redrawEdgeGroup", forward, bus1, bus2, bends, nodePoints>>
    /\ callResult' = LET edges == GroupEdges(forward, bus1, bus2, bends)
                     IN  [i \in 1..Len(edges) |->
                             getHalfEdges(edges[i], i - 1, Len(edges), nodePoints)]
    /\ UNCHANGED <<displayVars, toggleHovers, cfg, nodes, bendingPoints, busNode, edgesMap, selectedElement, draggedElement,
                   draggedElementType, isDragging, initialPosition, straightenedElement,
                   originalNodePosition, panning, bendLines, bendableLines, linePointIndexMap,
                   transform, hoveredElement, hoveredElementPosition, isHoverCallbackUsed,
                   debounced, calls, lastEvent, handled, bendSnapshot, textNodes, endTextEdge,
                   originalTextNodeShift, originalTextNodeConnectionShift, textPosition,
                   polylines, container, svgDraw>>

\* the corners of a rectangle of 4 by 3, whose sides and diagonals have
\* whole lengths
ChainPoints == {Point(0, 0), Point(800, 0), Point(800, 600), Point(0, 600)}

ChainBends ==
    {<<>>} \cup {<<p>> : p \in ChainPoints} \cup {<<p, q>> : p \in ChainPoints, q \in ChainPoints}

\* getEdgePoints on a list of bending points (the forks and ends are not used then)
GetEdgePointsCall(edgeStart1, edgeStart2, bends) ==
    /\ callArgs = <<>>
    /\ callArgs' = <<"getEdgePoints", edgeStart1, edgeStart2, bends>>
    /\ callResult' = getEdgePoints(edgeStart1, NoPoint, NoPoint, edgeStart2, NoPoint, NoPoint,
                                   List(bends))
    /\ UNCHANGED <<displayVars, toggleHovers, cfg, nodes, bendingPoints, busNode, edgesMap, selectedElement, draggedElement,
                   draggedElementType, isDragging, initialPosition, straightenedElement,
                   originalNodePosition, panning, bendLines, bendableLines, linePointIndexMap,
                   transform, hoveredElement, hoveredElementPosition, isHoverCallbackUsed,
                   debounced, calls, lastEvent, handled, bendSnapshot, textNodes, endTextEdge,
                   originalTextNodeShift, originalTextNodeConnectionShift, textPosition,
                   polylines, container, svgDraw>>

NextGeometry ==
    \/ \E count \in 1..MaxGroup, nodePoints \in GroupNodePoints, bends \in GroupBendingPoints,
          bus1 \in {"", "b1", "b2"}, bus2 \in {"", "b3"} :
          \E forward \in [1..count -> BOOLEAN] :
             RedrawEdgeGroupCall(forward, bus1, bus2, bends, nodePoints)
    \/ \E edgeStart1 \in ChainPoints, edgeStart2 \in ChainPoints, bends \in ChainBends :
          GetEdgePointsCall(edgeStart1, edgeStart2, bends)

InitGeometry ==
    /\ cfg = Options(TRUE, TRUE, TRUE, TRUE, TRUE)
    /\ bendingPoints = NoBendingPoints
    /\ busNode = InitialBusNode
    /\ InitViewer

SpecGeometry == InitGeometry /\ [][NextGeometry]_vars

\* the arguments and the result of a call of redrawEdgeGroup
IsGroupCall == Len(callArgs) > 0 /\ callArgs[1] = "redrawEdgeGroup"
GroupCount == Len(callArgs[2])
GroupCallEdge(i) == GroupEdges(callArgs[2], callArgs[3], callArgs[4], callArgs[5])[i]
GroupCallNodePoints == callArgs[6]

\* the side of edge i that is at the node
SideAt(i, node) == IF GroupCallEdge(i).node1 = node THEN 1 ELSE 2

OtherNode(node) == IF node = "vl1" THEN "vl2" ELSE "vl1"

\* the fork point of edge i at the node, as drawn: the second point of the
\* half edge of that side, for an edge without bending points
ForkPointAt(i, node) == callResult[i][SideAt(i, node)].edgePoints[2]

\* count points at the fork length from the node, spread over the aperture
\* centred on the direction of the other node, aperture / (count - 1) apart
SpreadForks(node, count) ==
    LET angle == getAngle(GroupCallNodePoints[node], GroupCallNodePoints[OtherNode(node)])
        angleStep == SvgParameters.edgesForkAperture \div (count - 1)
    IN  { getEdgeFork(GroupCallNodePoints[node], SvgParameters.edgesForkLength,
                      angle - SvgParameters.edgesForkAperture \div 2 + k * angleStep) :
            k \in 0..(count - 1) }

\* C18: in a group of count > 1 parallel edges without bending points, at
\* each of the two shared nodes the fork points of the siblings are pairwise
\* distinct and are spread evenly over the aperture, aperture/(count-1)
\* apart, whatever the node1/node2 orientation of each edge.
C18_ForksSpread ==
    (IsGroupCall /\ GroupCount > 1 /\ ~callArgs[5].def) =>
        \A node \in {"vl1", "vl2"} :
            LET forks == {ForkPointAt(i, node) : i \in 1..GroupCount}
            IN  /\ Cardinality(forks) = GroupCount
                /\ forks = SpreadForks(node, GroupCount)

\* the point the start of side k of edge i is directed to: the nearest
\* bending point, else the fork of that side, else the opposite node
StartTarget(i, k) ==
    LET edge == GroupCallEdge(i)
        point1 == GroupCallNodePoints[edge.node1]
        point2 == GroupCallNodePoints[edge.node2]
        bends == edge.bendingPoints
    IN  IF bends.def /\ Len(bends.pts) > 0
        THEN (IF k = 1 THEN bends.pts[1] ELSE bends.pts[Len(bends.pts)])
        ELSE IF GroupCount > 1
        THEN LET angles == getForkAngles(point1, point2, i - 1, GroupCount)
             IN  IF k = 1
                 THEN getEdgeFork(point1, SvgParameters.edgesForkLength, angles.angleFork1)
                 ELSE getEdgeFork(point2, SvgParameters.edgesForkLength, angles.angleFork2)
        ELSE IF k = 1 THEN point2 ELSE point1

\* start is on the ray from centre to target, at the distance rho from
\* centre, within the rounding of the coordinates
OnRayAt(centre, target, start, rho) ==
    LET dx == target[1] - centre[1]
        dy == target[2] - centre[2]
        sx == start[1] - centre[1]
        sy == start[2] - centre[2]
        cross == dx * sy - dy * sx
        abs(v) == IF v < 0 THEN -v ELSE v
    IN  /\ abs(cross) <= abs(dx) + abs(dy)
        /\ dx * sx + dy * sy > 0
        /\ getDistance(centre, start) - rho \in -1..1

\* C19: the start point of each side of each edge lies from the node centre
\* towards that side's nearest bending point if the edge has bending points,
\* else that side's fork point if the edge is in a parallel group, else the
\* opposite node, at the bus outer radius from the centre, plus the
\* unknown-bus extra radius exactly when that side's bus id is the empty
\* string.
C19_EdgeStarts ==
    IsGroupCall =>
        \A i \in 1..GroupCount : \A k \in 1..2 :
            LET edge == GroupCallEdge(i)
                centre == GroupCallNodePoints[IF k = 1 THEN edge.node1 ELSE edge.node2]
                busNodeId == IF k = 1 THEN edge.busNode1 ELSE edge.busNode2
                halfEdge == callResult[i][k]
                rho == halfEdge.busOuterRadius
                       + (IF busNodeId = "" THEN SvgParameters.unknownBusNodeExtraRadius ELSE 0)
            IN  /\ ~IsNaNPoint(halfEdge.edgePoints[1])
                /\ OnRayAt(centre, StartTarget(i, k), halfEdge.edgePoints[1], rho)

\* a reversed edge with a bending point in a group of three, on an unknown
\* bus on side 1 and a known bus on side 2
C19_Witness ==
    /\ IsGroupCall
    /\ GroupCount = 3
    /\ callArgs[2][2] = FALSE
    /\ callArgs[3] = "" /\ callArgs[4] = "b3"
    /\ callArgs[5].def /\ Len(callArgs[5].pts) = 2
    /\ callResult[2][1].edgePoints[1] # callResult[1][1].edgePoints[1]

IsEdgePointsCall == Len(callArgs) > 0 /\ callArgs[1] = "getEdgePoints"

\* all but the last element
Front(seq) == SubSeq(seq, 1, Len(seq) - 1)

\* C20: getEdgePoints on start1, start2 and a list of bending points gives
\* two half edges: the first begins at start1, the second at start2, both
\* end at the same inserted middle point, the first followed by the reverse
\* of the second (the middle point taken out) is the chain start1, bends...,
\* start2 in order, and the middle point is at half the length of the chain
\* from start1.
C20_EdgePointsSplit ==
    IsEdgePointsCall =>
        LET chain == <<callArgs[2]>> \o callArgs[4] \o <<callArgs[3]>>
            half1 == callResult[1]
            half2 == callResult[2]
            middle == half1[Len(half1)]
        IN  /\ Len(half1) >= 2 /\ Len(half2) >= 2
            /\ half1[1] = callArgs[2]
            /\ half2[1] = callArgs[3]
            /\ ~IsNaNPoint(middle)
            /\ half2[Len(half2)] = middle
            /\ Front(half1) \o Reverse(Front(half2)) = chain
            /\ 2 * ChainLength(half1) - ChainLength(chain) \in -4..4

(***************************************************************************)
(* The functions of metadata-utils on their own: one call per behaviour,   *)
(* its arguments in callArgs and what it returns in callResult             *)
(***************************************************************************)
ViewerUnchanged ==
    UNCHANGED <<displayVars, toggleHovers, cfg, nodes, bendingPoints, busNode, edgesMap, selectedElement, draggedElement,
                draggedElementType, isDragging, initialPosition, straightenedElement,
                originalNodePosition, panning, bendLines, bendableLines, linePointIndexMap,
                transform, hoveredElement, hoveredElementPosition, isHoverCallbackUsed,
                debounced, calls, lastEvent, handled, bendSnapshot, textNodes, endTextEdge,
                originalTextNodeShift, originalTextNodeConnectionShift, textPosition,
                polylines, container, svgDraw>>

MaxPoints == 2

\* the points of an edge and of its two nodes
ListPoints == {Point(0, 0), Point(8, 0), Point(8, 6), Point(4, 3)}

PointLists ==
    {Undefined} \cup {List(pts) : pts \in UNION {[1..n -> ListPoints] : n \in 0..MaxPoints}}

\* where the new point is put; the odd coordinates are rounded to 2 decimals
NewPoints == {Point(3, 1), Point(8, 0), Point(9, 7), Point(4, -2), Point(0, 0)}

AddPointToListCall ==
    /\ callArgs = <<>>
    /\ \E pointsMetadata \in PointLists, node1 \in {Point(0, 0), Point(8, 6)},
          node2 \in {Point(8, 0), Point(8, 6)}, bendPoint \in NewPoints :
          /\ callArgs' = <<"addPointToList", pointsMetadata, node1, node2, bendPoint>>
          /\ callResult' = addPointToList(pointsMetadata, node1, node2, bendPoint)
    /\ ViewerUnchanged

IsAddPointCall == Len(callArgs) > 0 /\ callArgs[1] = "addPointToList"

\* the squared distance from p to the nearest point of the segment from a to
\* b, as the fraction n / d: that to a or to b when the foot of the
\* perpendicular is outside the segment, and else by Pythagoras
ClampedSqDistance(p, a, b) ==
    LET den == SqDistance(a, b)
        num == (p[1] - a[1]) * (b[1] - a[1]) + (p[2] - a[2]) * (b[2] - a[2])
    IN  IF den = 0 \/ num < 0 THEN [n |-> SqDistance(p, a), d |-> 1]
        ELSE IF num > den THEN [n |-> SqDistance(p, b), d |-> 1]
        ELSE [n |-> SqDistance(p, a) * den - num * num, d |-> den]

\* the first segment (0-based) of the chain that is nearest to p
FirstNearestSegment(chain, p) ==
    LET dist(i) == ClampedSqDistance(p, chain[i], chain[i + 1])
        notAbove(i, j) == dist(i).n * dist(j).d <= dist(j).n * dist(i).d
    IN  (CHOOSE i \in 1..(Len(chain) - 1) :
            /\ \A j \in 1..(Len(chain) - 1) : notAbove(i, j)
            /\ \A j \in 1..(i - 1) : ~notAbove(j, i)) - 1

\* p and q are the same point once rounded to 2 decimals
SameRounded(p, q) == RoundPoint(p) = RoundPoint(q)

\* C21: addPointToList returns a list one longer than the one it is given
\* (undefined counting as empty), in which the existing points keep their
\* order and the new point is at the returned index, 0 <= index <= new
\* length - 1, and that place is between the two consecutive points of the
\* chain node1, points..., node2 whose segment is nearest to the new point
\* (the first such segment on ties).
C21_AddPointToList ==
    IsAddPointCall =>
        LET points == callArgs[2].pts
            chain == <<callArgs[3]>> \o points \o <<callArgs[4]>>
            linePoints == callResult.linePoints.pts
            index == callResult.index
        IN  /\ callResult.linePoints.def
            /\ Len(linePoints) = Len(points) + 1
            /\ index \in 0..(Len(linePoints) - 1)
            /\ SameRounded(linePoints[index + 1], callArgs[5])
            /\ RemoveAt(linePoints, index) = points
            /\ index = FirstNearestSegment(chain, callArgs[5])

\* the chain has no two consecutive points at the same place
NoEmptySegment(chain) == \A i \in 1..(Len(chain) - 1) : chain[i] # chain[i + 1]

\* a string as the sequence of its UTF-16 code units: "0", "2", "10", "_"
Str0 == <<48>>
Str2 == <<50>>
Str10 == <<49, 48>>
Underscore == <<95>>

\* a < b on strings: by code units, a proper prefix being smaller
RECURSIVE StrLess(_, _)
StrLess(a, b) ==
    IF b = <<>> THEN FALSE
    ELSE IF a = <<>> THEN TRUE
    ELSE IF Head(a) # Head(b) THEN Head(a) < Head(b)
    ELSE StrLess(Tail(a), Tail(b))

\* getGroupedEdgesIndexKey always taking node1 first
groupedEdgesIndexKeyInOrder(node1, node2) == node1 \o Underscore \o node2

\* MetadataUtils.getGroupedEdgesIndexKey on the node ids of an edge
groupedEdgesIndexKey(node1, node2) ==
    IF StrLess(node1, node2) THEN node1 \o Underscore \o node2 ELSE node2 \o Underscore \o node1

\* getBendableLines without the filter on loop edges
getBendableLinesWithLoops(edges) ==
    LET key(i) == groupedEdgesIndexKey(edges[i].node1, edges[i].node2)
        group(i) == {j \in 1..Len(edges) : key(j) = key(i)}
        kept(i) == /\ \A j \in group(i) : i <= j
                   /\ Cardinality(group(i)) = 1
                   /\ getEdgeType(edges[i].type) = "LINE"
                   /\ ~edges[i].invisible1 /\ ~edges[i].invisible2
        RECURSIVE lines(_)
        lines(i) == IF i > Len(edges) THEN <<>>
                    ELSE (IF kept(i) THEN <<i>> ELSE <<>>) \o lines(i + 1)
    IN  lines(1)

\* MetadataUtils.getBendableLines on a list of edges; the result lists the
\* positions (1-based) of the edges it returns, in the order of the groups
getBendableLinesOf(edges) ==
    LET grouped == {i \in 1..Len(edges) : edges[i].node1 # edges[i].node2}
        key(i) == groupedEdgesIndexKey(edges[i].node1, edges[i].node2)
        group(i) == {j \in grouped : key(j) = key(i)}
        \* the edge is edgeGroup[0] of a group that passes the three filters
        kept(i) == /\ i \in grouped
                   /\ \A j \in group(i) : i <= j
                   /\ ~(Cardinality(group(i)) > 1)
                   /\ ~(getEdgeType(edges[i].type) # "LINE")
                   /\ ~(edges[i].invisible1 \/ edges[i].invisible2)
        RECURSIVE lines(_)
        lines(i) == IF i > Len(edges) THEN <<>>
                    ELSE (IF kept(i) THEN <<i>> ELSE <<>>) \o lines(i + 1)
    IN  lines(1)

MaxEdges == 3

EdgeKinds ==
    { [node1 |-> n[1], node2 |-> n[2], type |-> k[1], invisible1 |-> k[2], invisible2 |-> k[3]] :
        n \in {<<Str0, Str2>>, <<Str2, Str0>>, <<Str0, Str10>>, <<Str0, Str0>>},
        k \in {<<"LineEdge", FALSE, FALSE>>, <<"LineEdge", TRUE, FALSE>>,
               <<"LineEdge", FALSE, TRUE>>, <<"TwoWtEdge", FALSE, FALSE>>} }

EdgeLists == UNION {[1..n -> EdgeKinds] : n \in 0..MaxEdges}

GetBendableLinesCall ==
    /\ callArgs = <<>>
    /\ \E edges \in EdgeLists :
          /\ callArgs' = <<"getBendableLines", edges>>
          /\ callResult' = getBendableLinesOf(edges)
    /\ ViewerUnchanged

IsBendableLinesCall == Len(callArgs) > 0 /\ callArgs[1] = "getBendableLines"

\* the set of the positions in a list of positions
Range(seq) == {seq[i] : i \in 1..Len(seq)}

\* edge i is a line with both sides visible and no other edge of the list
\* joins the same two nodes
LoneVisibleLine(edges, i) ==
    /\ edges[i].type = "LineEdge"
    /\ ~edges[i].invisible1 /\ ~edges[i].invisible2
    /\ \A j \in 1..Len(edges) :
          j # i => {edges[j].node1, edges[j].node2} # {edges[i].node1, edges[i].node2}

\* C22 as stated: getBendableLines returns exactly the Line-type edges that
\* are not part of a parallel group (no other edge of any type joins the same
\* unordered pair of nodes) and whose two sides are both visible.
C22_BendableLinesAsStated ==
    IsBendableLinesCall =>
        Range(callResult) = {i \in 1..Len(callArgs[2]) : LoneVisibleLine(callArgs[2], i)}

\* C22: getBendableLines returns exactly the Line-type edges joining two
\* different nodes that are not part of a parallel group (no other edge of
\* any type joins the same unordered pair of nodes) and whose two sides are
\* both visible; an edge from a node to itself is never returned.
C22_BendableLines ==
    IsBendableLinesCall =>
        /\ Range(callResult) =
              {i \in 1..Len(callArgs[2]) :
                  /\ callArgs[2][i].node1 # callArgs[2][i].node2
                  /\ LoneVisibleLine(callArgs[2], i)}
        /\ \A i, j \in 1..Len(callResult) : i < j => callResult[i] < callResult[j]

\* a list of three edges that begins with a lone visible line from a node to
\* itself and a lone visible line between two nodes: only the second is
\* returned
C22_Witness ==
    /\ IsBendableLinesCall
    /\ Len(callArgs[2]) = 3
    /\ callArgs[2][1].node1 = callArgs[2][1].node2
    /\ LoneVisibleLine(callArgs[2], 1)
    /\ LoneVisibleLine(callArgs[2], 2)
    /\ callResult = <<2>>

Str1 == <<49>>
Str100 == <<49, 48, 48>>

NodeIds == {Str0, Str1, Str2, Str10, Str100}

\* the key of an edge from node1 to node2 and that of an edge from node2 to
\* node1
GetGroupedEdgesIndexKeyCall(node1, node2) ==
    /\ callArgs = <<>>
    /\ callArgs' = <<"getGroupedEdgesIndexKey", node1, node2>>
    /\ callResult' = <<groupedEdgesIndexKey(node1, node2), groupedEdgesIndexKey(node2, node1)>>
    /\ ViewerUnchanged

IsIndexKeyCall == Len(callArgs) > 0 /\ callArgs[1] = "getGroupedEdgesIndexKey"

\* a comes before b in the order of strings: they agree on their first k
\* code units and then a ends first or has the smaller code unit
StringwiseBefore(a, b) ==
    \E k \in 0..Len(a) :
        /\ k <= Len(b)
        /\ SubSeq(a, 1, k) = SubSeq(b, 1, k)
        /\ \/ k = Len(a) /\ k < Len(b)
           \/ k < Len(a) /\ k < Len(b) /\ a[k + 1] < b[k + 1]

\* C23: getGroupedEdgesIndexKey is symmetric: an edge (node1 = a, node2 = b)
\* and an edge (node1 = b, node2 = a) get the same key, which is the
\* string-wise smaller id, an underscore, and the string-wise larger id.
C23_IndexKeySymmetric ==
    IsIndexKeyCall =>
        LET a == callArgs[2]
            b == callArgs[3]
        IN  /\ callResult[1] = callResult[2]
            /\ callResult[1] = IF StringwiseBefore(a, b) THEN a \o <<95>> \o b
                               ELSE b \o <<95>> \o a

\* "10" and "2": the smaller string is the larger number
C23_Witness ==
    /\ IsIndexKeyCall
    /\ callArgs[2] = <<50>> /\ callArgs[3] = <<49, 48>>
    /\ callResult[2] = <<49, 48, 95, 50>>

\* an array with holes: each element is <<>> (empty slot) or <<busNode>>
RECURSIVE Holes(_)
Holes(n) == IF n <= 0 THEN <<>> ELSE << <<>> >> \o Holes(n - 1)

\* array[index] = value on a JavaScript array: the array grows, leaving empty
\* slots, when index is at or beyond its length
SetAt(array, index, value) ==
    IF index < Len(array) THEN [array EXCEPT ![index + 1] = <<value>>]
    ELSE array \o Holes(index - Len(array)) \o << <<value>> >>

\* getSortedBusNodes pushing the bus nodes in the order they come
RECURSIVE getSortedBusNodesInOrder(_)
getSortedBusNodesInOrder(busNodes) ==
    IF busNodes = <<>> THEN <<>>
    ELSE LET sortedBusNodes == getSortedBusNodesInOrder(SubSeq(busNodes, 1, Len(busNodes) - 1))
             bus == busNodes[Len(busNodes)]
         IN  IF bus.index >= 0 THEN Append(sortedBusNodes, <<bus>>) ELSE sortedBusNodes

\* MetadataUtils.getSortedBusNodes: the forEach, from the first bus node on
RECURSIVE getSortedBusNodes(_)
getSortedBusNodes(busNodes) ==
    IF busNodes = <<>> THEN <<>>
    ELSE LET sortedBusNodes == getSortedBusNodes(SubSeq(busNodes, 1, Len(busNodes) - 1))
             bus == busNodes[Len(busNodes)]
         IN  IF bus.index >= 0 THEN SetAt(sortedBusNodes, bus.index, bus)
             ELSE sortedBusNodes

MaxBusNodes == 3

\* lists of bus nodes, the i-th with svgId i and any index from -1 on
BusNodeLists ==
    UNION { {[i \in 1..n |-> [svgId |-> i, index |-> indices[i]]] :
                indices \in [1..n -> -1..MaxBusNodes]} : n \in 0..MaxBusNodes }

GetSortedBusNodesCall(busNodes) ==
    /\ callArgs = <<>>
    /\ callArgs' = <<"getSortedBusNodes", busNodes>>
    /\ callResult' = getSortedBusNodes(busNodes)
    /\ ViewerUnchanged

IsSortedBusNodesCall == Len(callArgs) > 0 /\ callArgs[1] = "getSortedBusNodes"

\* the indices of the list are 0..n-1, each once
IsPermutation(busNodes) ==
    /\ \A i \in 1..Len(busNodes) : busNodes[i].index \in 0..(Len(busNodes) - 1)
    /\ \A i, j \in 1..Len(busNodes) : i # j => busNodes[i].index # busNodes[j].index

\* C24: for bus nodes whose indices are a permutation of 0..n-1, in any
\* order, getSortedBusNodes returns an array r of length n with
\* r[i].index = i for all i; and for any list every slot of the result is
\* empty or holds a bus node of the list with the index of the slot, every
\* bus node with a negative index is dropped and every index of the list
\* that is not negative has its slot filled.
C24_SortedBusNodes ==
    IsSortedBusNodesCall =>
        LET busNodes == callArgs[2]
            r == callResult
        IN  /\ IsPermutation(busNodes) =>
                  /\ Len(r) = Len(busNodes)
                  /\ \A i \in 0..(Len(busNodes) - 1) : Len(r[i + 1]) = 1 /\ r[i + 1][1].index = i
            /\ \A i \in 0..(Len(r) - 1) :
                  r[i + 1] = <<>> \/ (r[i + 1][1] \in Range(busNodes) /\ r[i + 1][1].index = i)
            /\ \A i \in 1..Len(busNodes) :
                  IF busNodes[i].index < 0
                  THEN \A k \in 1..Len(r) : r[k] # <<busNodes[i]>>
                  ELSE busNodes[i].index < Len(r) /\ r[busNodes[i].index + 1] # <<>>

\* the bus nodes of indices 0, 2, 1 come back in the order 0, 1, 2
C24_Witness ==
    /\ IsSortedBusNodesCall
    /\ Len(callArgs[2]) = 3
    /\ callArgs[2][1].index = 0 /\ callArgs[2][2].index = 2 /\ callArgs[2][3].index = 1
    /\ callResult = << <<callArgs[2][1]>>, <<callArgs[2][3]>>, <<callArgs[2][2]>> >>

MaxNeighbours == 12

\* the radii of the bus nodes of index 0..nbNeighbours of a voltage level
GetNodeRadiusCall(nbNeighbours, fictitious) ==
    /\ callArgs = <<>>
    /\ callArgs' = <<"getNodeRadius", nbNeighbours, fictitious>>
    /\ callResult' = [i \in 1..(nbNeighbours + 1) |-> getNodeRadiusOf(nbNeighbours, i - 1, fictitious)]
    /\ ViewerUnchanged

IsNodeRadiusCall == Len(callArgs) > 0 /\ callArgs[1] = "getNodeRadius"

\* value is numerator / denominator, to the nearest unit
IsQuotient(value, numerator, denominator) ==
    /\ 2 * (value * denominator - numerator) <= denominator
    /\ 2 * (numerator - value * denominator) <= denominator

\* C25: for nbNeighbours = n and index = i in 0..n, voltageLevelRadius is
\* clamp(n+1, 1, 2) times the base radius (the fictitious one for a
\* fictitious node), busOuterRadius is (i+1) x unitaryRadius -
\* interAnnulusSpace/2 and busInnerRadius is 0 for i = 0 and else
\* i x unitaryRadius + interAnnulusSpace/2, with unitaryRadius =
\* voltageLevelRadius/(n+1); so busOuterRadius(i) = busOuterRadius(i-1) +
\* unitaryRadius.  With radius 30 and space 5 (6000 and 1000 units), n = 0,
\* i = 0 gives 0 / 27.5 / 30 and n = 2, i = 2 gives 42.5 / 57.5 / 60.
C25_NodeRadius ==
    IsNodeRadiusCall =>
        LET n == callArgs[2]
            baseRadius == IF callArgs[3] THEN 3000 ELSE 6000
            vlRadius == (IF n + 1 < 1 THEN 1 ELSE IF n + 1 > 2 THEN 2 ELSE n + 1) * baseRadius
        IN  /\ \A i \in 0..n :
                  LET r == callResult[i + 1]
                  IN  /\ r.voltageLevelRadius = vlRadius
                      /\ IsQuotient(r.busOuterRadius + 500, (i + 1) * vlRadius, n + 1)
                      /\ IF i = 0 THEN r.busInnerRadius = 0
                         ELSE IsQuotient(r.busInnerRadius - 500, i * vlRadius, n + 1)
                      /\ i > 0 =>
                            (r.busOuterRadius - callResult[i].busOuterRadius) * (n + 1) - vlRadius
                                \in -(n + 1)..(n + 1)
            /\ (n = 0 /\ ~callArgs[3]) =>
                  callResult[1] = [busInnerRadius |-> 0, busOuterRadius |-> 5500,
                                   voltageLevelRadius |-> 6000]
            /\ (n = 2 /\ ~callArgs[3]) =>
                  callResult[3] = [busInnerRadius |-> 8500, busOuterRadius |-> 11500,
                                   voltageLevelRadius |-> 12000]

\* the three bus nodes of a voltage level that is not fictitious
C25_Witness ==
    /\ IsNodeRadiusCall
    /\ callArgs[2] = 2 /\ ~callArgs[3]
    /\ callResult[2].busInnerRadius = 4500
    /\ callResult[2].busOuterRadius = 7500

\* Number.MAX_VALUE, which no coordinate reaches
MaxValue == 2000000000

\* TEXT_BOX_WIDTH_DEFAULT and TEXT_BOX_HEIGHT_DEFAULT, in units
TextBoxWidthDefault == 40000
TextBoxHeightDefault == 20000

MinOf(a, b) == IF a < b THEN a ELSE b
MaxOf(a, b) == IF a > b THEN a ELSE b

\* nodes.forEach of getViewBox, from the first node on
RECURSIVE NodesSize(_)
NodesSize(nodeList) ==
    IF nodeList = <<>>
    THEN [minX |-> MaxValue, maxX |-> -MaxValue, minY |-> MaxValue, maxY |-> -MaxValue]
    ELSE LET size == NodesSize(SubSeq(nodeList, 1, Len(nodeList) - 1))
             node == nodeList[Len(nodeList)]
         IN  [minX |-> MinOf(size.minX, node.x), maxX |-> MaxOf(size.maxX, node.x),
              minY |-> MinOf(size.minY, node.y), maxY |-> MaxOf(size.maxY, node.y)]

\* nodesMap.get(equipmentId): the last node of the list with that equipment
\* id, <<>> when there is none
NodesMapGet(nodeList, equipmentId) ==
    LET found == {i \in 1..Len(nodeList) : nodeList[i].equipmentId = equipmentId}
    IN  IF found = {} THEN <<>>
        ELSE <<nodeList[CHOOSE i \in found : \A j \in found : j <= i]>>

\* textNodes.forEach of getViewBox, from the first text node on
RECURSIVE TextNodesSize(_, _)
TextNodesSize(nodeList, textNodeList) ==
    IF textNodeList = <<>> THEN NodesSize(nodeList)
    ELSE LET size == TextNodesSize(nodeList, SubSeq(textNodeList, 1, Len(textNodeList) - 1))
             textNode == textNodeList[Len(textNodeList)]
             node == NodesMapGet(nodeList, textNode.equipmentId)
         IN  IF node = <<>> THEN size
             ELSE [minX |-> MinOf(size.minX, node[1].x + textNode.shiftX),
                   maxX |-> MaxOf(size.maxX, node[1].x + textNode.shiftX + TextBoxWidthDefault),
                   minY |-> MinOf(size.minY, node[1].y + textNode.shiftY),
                   maxY |-> MaxOf(size.maxY, node[1].y + textNode.shiftY + TextBoxHeightDefault)]

\* the view box from a size and the padding
ViewBoxOf(size, diagramPadding) ==
    [x |-> Round(size.minX - diagramPadding.left),
     y |-> Round(size.minY - diagramPadding.top),
     width |-> Round(size.maxX - size.minX + diagramPadding.left + diagramPadding.right),
     height |-> Round(size.maxY - size.minY + diagramPadding.top + diagramPadding.bottom)]

\* getViewBox leaving the text boxes out
getViewBoxOfNodes(nodeList, textNodeList, diagramPadding) ==
    ViewBoxOf(NodesSize(nodeList), diagramPadding)

\* MetadataUtils.getViewBox
getViewBox(nodeList, textNodeList, diagramPadding) ==
    ViewBoxOf(TextNodesSize(nodeList, textNodeList), diagramPadding)

\* the four nodes of the test, 500 = 100000 units
ViewBoxNodes ==
    << [equipmentId |-> "VL1", x |-> -100000, y |-> 0],
       [equipmentId |-> "VL2", x |-> 0, y |-> -100000],
       [equipmentId |-> "VL3", x |-> 100000, y |-> 0],
       [equipmentId |-> "VL4", x |-> 0, y |-> 100000] >>

\* the elements of seq at the positions of keep, in order
RECURSIVE SubList(_, _)
SubList(seq, keep) ==
    IF seq = <<>> THEN <<>>
    ELSE SubList(SubSeq(seq, 1, Len(seq) - 1), keep)
            \o (IF Len(seq) \in keep THEN <<seq[Len(seq)]>> ELSE <<>>)

\* the legends of the nodes and one of a node that is not in the metadata,
\* all with the same shift
ViewBoxTextNodes(shift) ==
    [i \in 1..5 |->
        [equipmentId |-> <<"VL1", "VL2", "VL3", "VL4", "VL9">>[i],
         shiftX |-> shift[1], shiftY |-> shift[2]]]

TextShifts == {<<20000, -8000>>, <<-60000, 10000>>}

\* the default padding of SvgParameters and another one
DiagramPaddings ==
    { [left |-> 40000, top |-> 40000, right |-> 40000, bottom |-> 40000],
      [left |-> 2000, top |-> 4000, right |-> 6000, bottom |-> 8000] }

GetViewBoxCall ==
    /\ callArgs = <<>>
    /\ \E keptNodes \in (SUBSET (1..4)) \ {{}}, keptTextNodes \in SUBSET (1..5),
          shift \in TextShifts, diagramPadding \in DiagramPaddings :
          LET nodeList == SubList(ViewBoxNodes, keptNodes)
              textNodeList == SubList(ViewBoxTextNodes(shift), keptTextNodes)
          IN  /\ callArgs' = <<"getViewBox", nodeList, textNodeList, diagramPadding>>
              /\ callResult' = getViewBox(nodeList, textNodeList, diagramPadding)
    /\ ViewerUnchanged

IsViewBoxCall == Len(callArgs) > 0 /\ callArgs[1] = "getViewBox"

\* the least and the greatest of a set of numbers
Least(S) == CHOOSE v \in S : \A w \in S : v <= w
Greatest(S) == CHOOSE v \in S : \A w \in S : v >= w

\* C26: getViewBox returns the bounding box of all the node positions and of
\* every text box (from node position + text shift to that point + 200 x
\* 100), enlarged by the padding on each side; with four nodes at (-500,0),
\* (0,-500), (500,0), (0,500), text shifts (100,-40) and the default padding
\* 200 it returns x = -700, y = -740, width = 1700, height = 1500.
C26_ViewBox ==
    IsViewBoxCall =>
        LET nodeList == callArgs[2]
            textNodeList == callArgs[3]
            padding == callArgs[4]
            boxes == {<<n, t>> \in (1..Len(nodeList)) \X (1..Len(textNodeList)) :
                        nodeList[n].equipmentId = textNodeList[t].equipmentId}
            xs == {nodeList[n].x : n \in 1..Len(nodeList)}
                  \cup {nodeList[b[1]].x + textNodeList[b[2]].shiftX : b \in boxes}
                  \cup {nodeList[b[1]].x + textNodeList[b[2]].shiftX + 40000 : b \in boxes}
            ys == {nodeList[n].y : n \in 1..Len(nodeList)}
                  \cup {nodeList[b[1]].y + textNodeList[b[2]].shiftY : b \in boxes}
                  \cup {nodeList[b[1]].y + textNodeList[b[2]].shiftY + 20000 : b \in boxes}
        IN  /\ callResult.x = Least(xs) - padding.left
            /\ callResult.y = Least(ys) - padding.top
            /\ callResult.x + callResult.width = Greatest(xs) + padding.right
            /\ callResult.y + callResult.height = Greatest(ys) + padding.bottom
            /\ (/\ nodeList = ViewBoxNodes
                /\ textNodeList = SubList(ViewBoxTextNodes(<<20000, -8000>>), 1..4)
                /\ padding.left = 40000 /\ padding.top = 40000
                /\ padding.right = 40000 /\ padding.bottom = 40000) =>
                  callResult = [x |-> -140000, y |-> -148000, width |-> 340000, height |-> 300000]

\* the four nodes and their four legends of the test, with the default padding
C26_Witness ==
    /\ IsViewBoxCall
    /\ callArgs[2] = ViewBoxNodes
    /\ callArgs[3] = SubList(ViewBoxTextNodes(<<20000, -8000>>), 1..4)
    /\ callArgs[4].left = 40000 /\ callArgs[4].bottom = 40000
    /\ callResult.y = -148000 /\ callResult.width = 340000

\* the members of the enum EdgeType
EdgeTypes ==
    {"LINE", "TWO_WINDINGS_TRANSFORMER", "PHASE_SHIFT_TRANSFORMER", "HVDC_LINE_VSC",
     "HVDC_LINE_LCC", "DANGLING_LINE", "TIE_LINE", "THREE_WINDINGS_TRANSFORMER",
     "THREE_WINDINGS_PHASE_SHIFT_TRANSFORMER", "UNKNOWN"}

\* EdgeType[edgeType]: the name of the member, undefined for anything else
EdgeTypeName(edgeType) == IF edgeType \in EdgeTypes THEN edgeType ELSE "undefined"

\* the type strings of the metadata, a missing type and strings that are not
\* keys of EdgeTypeMapping
TypeStrings == DOMAIN EdgeTypeMapping \cup {Null, "", "lineedge", "BusbarEdge"}

\* getEdgeType and getStringEdgeType of an edge of that type
GetEdgeTypeCall(type) ==
    /\ callArgs = <<>>
    /\ callArgs' = <<"getEdgeType", type>>
    /\ callResult' = <<getEdgeType(type), EdgeTypeName(getEdgeType(type))>>
    /\ ViewerUnchanged

IsEdgeTypeCall == Len(callArgs) > 0 /\ callArgs[1] = "getEdgeType"

\* C27: getEdgeType is a total mapping: it returns the matching EdgeType for
\* each of the nine known type strings and EdgeType.UNKNOWN for every other
\* input (a missing type as well as any unrecognized type string), so
\* getStringEdgeType always returns the name of an EdgeType member.
C27_EdgeTypeTotal ==
    IsEdgeTypeCall =>
        /\ callResult[1] = IF callArgs[2] \in DOMAIN EdgeTypeMapping
                           THEN EdgeTypeMapping[callArgs[2]] ELSE "UNKNOWN"
        /\ callResult[2] \in EdgeTypes

(***************************************************************************)
(* SvgParameters and NadViewerParameters.  A configuration object is       *)
(* absent, or has some of the keys; a key that is present holds the value  *)
(* of Configured.                                                          *)
(***************************************************************************)
SvgParameterKeys ==
    {"voltageLevelCircleRadius", "interAnnulusSpace", "edgesForkLength", "diagramPadding"}

PaddingSides == {"left", "top", "right", "bottom"}

\* the values of a configuration, and the named defaults, in units
Configured ==
    [voltageLevelCircleRadius |-> 8000, interAnnulusSpace |-> 1600, edgesForkLength |-> 10000,
     left |-> 2000, top |-> 4000, right |-> 6000, bottom |-> 8000,
     minWidth |-> 300, enableDragInteraction |-> TRUE, hoverPositionPrecision |-> 4]

Defaults ==
    [voltageLevelCircleRadius |-> 6000, interAnnulusSpace |-> 1000, edgesForkLength |-> 16000,
     left |-> 40000, top |-> 40000, right |-> 40000, bottom |-> 40000,
     minWidth |-> 500, enableDragInteraction |-> FALSE, hoverPositionPrecision |-> 10]

AbsentObject == [def |-> FALSE, keys |-> {}, sides |-> {}]

SvgParametersMetadatas ==
    {AbsentObject}
        \cup { [def |-> TRUE, keys |-> keys, sides |-> sides] :
                 keys \in SUBSET SvgParameterKeys, sides \in SUBSET PaddingSides }

\* this.svgParametersMetadata?.key ?? default
OptionalValue(object, key) ==
    IF object.def /\ key \in object.keys THEN Configured[key] ELSE Defaults[key]

\* this.svgParametersMetadata?.diagramPadding.side ?? default: reading a side
\* of a diagramPadding that is undefined throws a TypeError
PaddingSide(svgParametersMetadata, side) ==
    IF ~svgParametersMetadata.def THEN Defaults[side]
    ELSE IF "diagramPadding" \notin svgParametersMetadata.keys THEN "TypeError"
    ELSE IF side \in svgParametersMetadata.sides THEN Configured[side]
    ELSE Defaults[side]

\* SvgParameters.getDiagramPadding
getDiagramPadding(svgParametersMetadata) ==
    IF svgParametersMetadata.def /\ "diagramPadding" \notin svgParametersMetadata.keys
    THEN [threw |-> TRUE]
    ELSE [threw |-> FALSE,
          left |-> PaddingSide(svgParametersMetadata, "left"),
          top |-> PaddingSide(svgParametersMetadata, "top"),
          right |-> PaddingSide(svgParametersMetadata, "right"),
          bottom |-> PaddingSide(svgParametersMetadata, "bottom")]

\* every accessor of a new SvgParameters(svgParametersMetadata)
SvgParametersCall(svgParametersMetadata) ==
    /\ callArgs = <<>>
    /\ callArgs' = <<"SvgParameters", svgParametersMetadata>>
    /\ callResult' =
          [getVoltageLevelCircleRadius |->
               OptionalValue(svgParametersMetadata, "voltageLevelCircleRadius"),
           getInterAnnulusSpace |-> OptionalValue(svgParametersMetadata, "interAnnulusSpace"),
           getEdgesForkLength |-> OptionalValue(svgParametersMetadata, "edgesForkLength"),
           getDiagramPadding |-> getDiagramPadding(svgParametersMetadata)]
    /\ ViewerUnchanged

NadViewerParameterKeys == {"minWidth", "enableDragInteraction", "hoverPositionPrecision"}

NadViewerParametersOptions ==
    {AbsentObject}
        \cup { [def |-> TRUE, keys |-> keys, sides |-> {}] : keys \in SUBSET NadViewerParameterKeys }

\* accessors of a new NadViewerParameters(nadViewerParametersOptions)
NadViewerParametersCall(nadViewerParametersOptions) ==
    /\ callArgs = <<>>
    /\ callArgs' = <<"NadViewerParameters", nadViewerParametersOptions>>
    /\ callResult' =
          [getMinWidth |-> OptionalValue(nadViewerParametersOptions, "minWidth"),
           getEnableDragInteraction |->
               OptionalValue(nadViewerParametersOptions, "enableDragInteraction"),
           getHoverPositionPrecision |->
               OptionalValue(nadViewerParametersOptions, "hoverPositionPrecision")]
    /\ ViewerUnchanged

IsSvgParametersCall == Len(callArgs) > 0 /\ callArgs[1] = "SvgParameters"
IsNadViewerParametersCall == Len(callArgs) > 0 /\ callArgs[1] = "NadViewerParameters"

\* the value of the key in the object when it has it, and else the default
ConfiguredOrDefault(present, key) == IF present THEN Configured[key] ELSE Defaults[key]

\* C28: for every configuration object, absent, complete or partial, every
\* accessor of SvgParameters and of NadViewerParameters returns the
\* configured value when the key is present and its named default otherwise,
\* and never throws.
C28_AccessorsTotal ==
    /\ IsSvgParametersCall =>
          LET object == callArgs[2]
              has(key) == object.def /\ key \in object.keys
          IN  /\ callResult.getVoltageLevelCircleRadius =
                    ConfiguredOrDefault(has("voltageLevelCircleRadius"), "voltageLevelCircleRadius")
              /\ callResult.getInterAnnulusSpace =
                    ConfiguredOrDefault(has("interAnnulusSpace"), "interAnnulusSpace")
              /\ callResult.getEdgesForkLength =
                    ConfiguredOrDefault(has("edgesForkLength"), "edgesForkLength")
              /\ ~callResult.getDiagramPadding.threw
              /\ \A side \in PaddingSides :
                    callResult.getDiagramPadding[side] =
                        ConfiguredOrDefault(has("diagramPadding") /\ side \in object.sides, side)
    /\ IsNadViewerParametersCall =>
          LET object == callArgs[2]
              has(key) == object.def /\ key \in object.keys
          IN  /\ callResult.getMinWidth = ConfiguredOrDefault(has("minWidth"), "minWidth")
              /\ callResult.getEnableDragInteraction =
                    ConfiguredOrDefault(has("enableDragInteraction"), "enableDragInteraction")
              /\ callResult.getHoverPositionPrecision =
                    ConfiguredOrDefault(has("hoverPositionPrecision"), "hoverPositionPrecision")

NextParameters ==
    \/ \E svgParametersMetadata \in SvgParametersMetadatas : SvgParametersCall(svgParametersMetadata)
    \/ \E nadViewerParametersOptions \in NadViewerParametersOptions :
          NadViewerParametersCall(nadViewerParametersOptions)

SpecParameters == InitGeometry /\ [][NextParameters]_vars

NextMetadataUtils ==
    \/ AddPointToListCall
    \/ GetBendableLinesCall
    \/ \E node1 \in NodeIds, node2 \in NodeIds : GetGroupedEdgesIndexKeyCall(node1, node2)
    \/ \E busNodes \in BusNodeLists : GetSortedBusNodesCall(busNodes)
    \/ \E nbNeighbours \in 0..MaxNeighbours, fictitious \in BOOLEAN :
          GetNodeRadiusCall(nbNeighbours, fictitious)
    \/ GetViewBoxCall
    \/ \E type \in TypeStrings : GetEdgeTypeCall(type)

SpecMetadataUtils == InitGeometry /\ [][NextMetadataUtils]_vars

(***************************************************************************)
(* The half-edge functions on metadata that lacks some of the nodes        *)
(***************************************************************************)
\* a HalfEdge that is undefined
UndefinedHalfEdge == [side |-> "undefined"]

\* MetadataUtils.getNodeMetadata: the node with that svgId, or undefined
getNodeMetadata(nodeId, nodePoints) == IF nodeId \in DOMAIN nodePoints THEN nodeId ELSE "undefined"

\* SvgUtils.getHalfEdgesLoop; element is <<>> (null) or the points of the two
\* paths of the edge element, which has no transform
getHalfEdgesLoop(edge, nodePoints, element) ==
    IF element = <<>> THEN <<NoHalfEdge, NoHalfEdge>>
    ELSE
    LET node1 == getNodeMetadata(edge.node1, nodePoints)
        node2 == getNodeMetadata(edge.node2, nodePoints)
    IN  IF node1 # node2 THEN <<NoHalfEdge, NoHalfEdge>>
        ELSE LET nodeRadius1 == getNodeRadius(getBusNodeMetadata(edge.busNode1), FALSE)
                 nodeRadius2 == getNodeRadius(getBusNodeMetadata(edge.busNode2), FALSE)
             IN  << [side |-> "1", fork |-> FALSE, busOuterRadius |-> nodeRadius1.busOuterRadius,
                     voltageLevelRadius |-> nodeRadius1.voltageLevelRadius,
                     edgePoints |-> element[1]],
                    [side |-> "2", fork |-> FALSE, busOuterRadius |-> nodeRadius2.busOuterRadius,
                     voltageLevelRadius |-> nodeRadius2.voltageLevelRadius,
                     edgePoints |-> element[2]] >>

\* SvgUtils.getThreeWtHalfEdge; points is <<>> for null
getThreeWtHalfEdge(points, edge, threeWtMoved, initPosition, nodePoints) ==
    IF points = <<>> THEN UndefinedHalfEdge
    ELSE IF edge.node1 \notin DOMAIN nodePoints \/ edge.node2 \notin DOMAIN nodePoints
    THEN UndefinedHalfEdge
    ELSE
    LET pointVl == nodePoints[edge.node1]
        pointTwt == nodePoints[edge.node2]
        nodeRadius == getNodeRadius(getBusNodeMetadata(edge.busNode1), FALSE)
        edgeStart == getEdgeStart(edge.busNode1, pointVl, pointTwt, nodeRadius.busOuterRadius)
        last == points[Len(points)]
        edgeEnd == IF threeWtMoved /\ initPosition # NoPoint
                   THEN Point(last[1] + pointTwt[1] - initPosition[1],
                              last[2] + pointTwt[2] - initPosition[2])
                   ELSE last
    IN  [side |-> "1", fork |-> FALSE, busOuterRadius |-> nodeRadius.busOuterRadius,
         voltageLevelRadius |-> nodeRadius.voltageLevelRadius,
         edgePoints |-> <<edgeStart, edgeEnd>>]

\* the documents: each has some of the two nodes of the edge
PartialNodePoints ==
    { [n \in present |-> IF n = "vl1" THEN Origin ELSE Point(24000, 0)] :
        present \in SUBSET {"vl1", "vl2"} }

\* the points of the rendered polyline or paths of an edge
RenderedPoints == <<Point(5500, 0), Point(12000, 0)>>

GetHalfEdgesCall(forward, bus1, bends, groupedEdgesCount, nodePoints) ==
    /\ callArgs = <<>>
    /\ callArgs' = <<"getHalfEdges", forward, bus1, bends, groupedEdgesCount, nodePoints>>
    /\ callResult' = getHalfEdges(GroupEdge(forward, bus1, "b3", bends), 0, groupedEdgesCount,
                                  nodePoints)
    /\ ViewerUnchanged

GetHalfEdgesLoopCall(node, bus1, element, nodePoints) ==
    /\ callArgs = <<>>
    /\ callArgs' = <<"getHalfEdgesLoop", node, bus1, element, nodePoints>>
    /\ callResult' =
          getHalfEdgesLoop([node1 |-> node, node2 |-> node, busNode1 |-> bus1, busNode2 |-> "b2"],
                           nodePoints, element)
    /\ ViewerUnchanged

GetHalfVisibleHalfEdgesCall(forward, visibleSide, initPosition, nodePoints) ==
    /\ callArgs = <<>>
    /\ callArgs' = <<"getHalfVisibleHalfEdges", forward, visibleSide, initPosition, nodePoints>>
    /\ callResult' = getHalfVisibleHalfEdges(RenderedPoints, GroupEdge(forward, "b1", "b3", Undefined),
                                             visibleSide, FALSE, nodePoints, initPosition)
    /\ ViewerUnchanged

GetThreeWtHalfEdgeCall(forward, threeWtMoved, initPosition, nodePoints) ==
    /\ callArgs = <<>>
    /\ callArgs' = <<"getThreeWtHalfEdge", forward, threeWtMoved, initPosition, nodePoints>>
    /\ callResult' = getThreeWtHalfEdge(RenderedPoints, GroupEdge(forward, "b1", "b3", Undefined),
                                        threeWtMoved, initPosition, nodePoints)
    /\ ViewerUnchanged

NextMissingNodes ==
    \/ \E forward \in BOOLEAN, bus1 \in {"", "b1", "b2"}, bends \in GroupBendingPoints,
          groupedEdgesCount \in 1..MaxGroup, nodePoints \in PartialNodePoints :
          GetHalfEdgesCall(forward, bus1, bends, groupedEdgesCount, nodePoints)
    \/ \E node \in {"vl1", "vl2"}, bus1 \in {"", "b1"}, element \in {<<>>, <<RenderedPoints, RenderedPoints>>},
          nodePoints \in PartialNodePoints :
          GetHalfEdgesLoopCall(node, bus1, element, nodePoints)
    \/ \E forward \in BOOLEAN, visibleSide \in {"1", "2"}, initPosition \in {NoPoint, Origin},
          nodePoints \in PartialNodePoints :
          GetHalfVisibleHalfEdgesCall(forward, visibleSide, initPosition, nodePoints)
    \/ \E forward \in BOOLEAN, threeWtMoved \in BOOLEAN, initPosition \in {NoPoint, Origin},
          nodePoints \in PartialNodePoints :
          GetThreeWtHalfEdgeCall(forward, threeWtMoved, initPosition, nodePoints)

SpecMissingNodes == InitGeometry /\ [][NextMissingNodes]_vars

\* the name of the function called, and the nodes of its document (its last
\* argument)
CalledFunction == IF Len(callArgs) > 0 THEN callArgs[1] ELSE Null
CallNodes == DOMAIN callArgs[Len(callArgs)]

\* C29: each half-edge function, when the metadata of a node it requires is
\* missing, returns [null, null] (getHalfEdges, getHalfEdgesLoop,
\* getHalfVisibleHalfEdges) or undefined (getThreeWtHalfEdge) and does not
\* throw, also when both end nodes of the edge are missing.
C29_MissingNodes ==
    /\ (CalledFunction = "getHalfEdges" /\ CallNodes # {"vl1", "vl2"}) =>
          callResult = <<NoHalfEdge, NoHalfEdge>>
    /\ (CalledFunction = "getHalfEdgesLoop" /\ callArgs[2] \notin CallNodes) =>
          callResult = <<NoHalfEdge, NoHalfEdge>>
    /\ (CalledFunction = "getHalfVisibleHalfEdges"
            /\ (IF callArgs[2] = (callArgs[3] = "1") THEN "vl1" ELSE "vl2") \notin CallNodes) =>
          callResult = <<NoHalfEdge, NoHalfEdge>>
    /\ (CalledFunction = "getThreeWtHalfEdge" /\ CallNodes # {"vl1", "vl2"}) =>
          callResult = UndefinedHalfEdge

(***************************************************************************)
(* The public operations, given ids the metadata does not have             *)
(***************************************************************************)
\* setBranchStates(branchStates), with the list kept as the arguments of the
\* call
SetBranchStatesCall(branchStates) ==
    /\ handled < MaxEvents
    /\ Handled(Event("setBranchStates", Null, FALSE, NoPoint))
    /\ \E m \in {setBranchStates([busNode |-> busNode, edgesMap |-> edgesMap,
                                  polylines |-> polylines], branchStates)} :
          /\ busNode' = m.busNode
          /\ edgesMap' = m.edgesMap
          /\ polylines' = m.polylines
    /\ callArgs' = <<"setBranchStates", branchStates>>
    /\ callResult' = <<"returned">>
    /\ UNCHANGED <<displayVars, toggleHovers, cfg, nodes, bendingPoints, selectedElement, draggedElement, draggedElementType,
                   isDragging, initialPosition, straightenedElement, originalNodePosition, panning,
                   bendLines, bendableLines, linePointIndexMap, transform, hoveredElement,
                   hoveredElementPosition, isHoverCallbackUsed, debounced, calls,
                   bendSnapshot, textNodes, endTextEdge, originalTextNodeShift,
                   originalTextNodeConnectionShift, textPosition, container, svgDraw>>

\* entries that name a branch the metadata does not have (LX), a loop (L4)
\* or a bus the metadata does not have (BX)
SkippedBranchStates ==
    [branchId : {"LX", "L4"}, connectedBus1 : {"B2"}, connectedBus2 : {Null}]
    \cup { [branchId |-> "L1", connectedBus1 |-> c[1], connectedBus2 |-> c[2]] :
             c \in {<<"BX", Null>>, <<"BX", "B3">>, <<"B2", "BX">>} }
    \cup { [branchId |-> "T1", connectedBus1 |-> Null, connectedBus2 |-> "BX"] }

\* entries that name a branch and a bus of the metadata
AppliedBranchStates ==
    { [branchId |-> "L1", connectedBus1 |-> "B2", connectedBus2 |-> Null],
      [branchId |-> "L1", connectedBus1 |-> "B1", connectedBus2 |-> "B3"] }

\* the equipment ids given to the move operations: VL2 has no legend, VLX is
\* not in the metadata
MovedEquipmentIds == {"VL1", "VL2", "VLX"}

InitUnknownIds ==
    /\ cfg = Options(TRUE, TRUE, TRUE, TRUE, TRUE)
    /\ bendingPoints = NoBendingPoints
    /\ busNode \in {InitialBusNode, [InitialBusNode EXCEPT !["e1"] = <<"", "b3">>]}
    /\ InitViewer

NextUnknownIds ==
    \/ \E equipmentId \in MovedEquipmentIds : MoveNodeToCoordinates(equipmentId, 61, 20)
    \/ \E equipmentId \in MovedEquipmentIds : MoveTextNodeToCoordinates(equipmentId, 30, 11, 4, 2)
    \/ \E skipped \in SkippedBranchStates : SetBranchStatesCall(<<skipped>>)
    \/ \E skipped \in SkippedBranchStates, applied \in AppliedBranchStates :
          \/ SetBranchStatesCall(<<skipped, applied>>)
          \/ SetBranchStatesCall(<<applied, skipped>>)

SpecUnknownIds == InitUnknownIds /\ [][NextUnknownIds]_vars

\* whether the metadata has a node, a legend, a branch that is not a loop, a
\* bus of that equipment id
NamesNode(equipmentId) == \E n \in Nodes : NodeEquipmentId[n] = equipmentId
NamesTextNode(equipmentId) == \E tn \in TextNodes : TextNodeMetadata[tn].equipmentId = equipmentId
NamesBranch(branchId) == \E e \in Edges : EdgeMetadata[e].equipmentId = branchId /\ EdgeMetadata[e].node1 # EdgeMetadata[e].node2
NamesBus(busId) == \E b \in BusNodes : BusNodeMetadata[b].equipmentId = busId

\* the list without the entries that name no branch, and without the bus ids
\* that name no bus
KnownBranchStates(branchStates) ==
    LET named(branchState) == NamesBranch(branchState.branchId)
        kept == SelectSeq(branchStates, named)
        known(busId) == IF NamesBus(busId) THEN busId ELSE Null
    IN  [i \in 1..Len(kept) |->
            [kept[i] EXCEPT !.connectedBus1 = known(@), !.connectedBus2 = known(@)]]

\* whether an entry of the list names that side of that edge and a bus
SideNamed(branchStates, edge, side) ==
    \E i \in 1..Len(branchStates) :
        /\ branchStates[i].branchId = EdgeMetadata[edge].equipmentId
        /\ NamesBus(IF side = 1 THEN branchStates[i].connectedBus1
                    ELSE branchStates[i].connectedBus2)

MetadataUnchanged == UNCHANGED <<nodes, bendingPoints, busNode, textNodes>>
DocumentUnchanged == UNCHANGED <<transform, textPosition, polylines>>

ConverterStationWidth == 14000

\* Array.prototype.at(-k)
AtEnd(points, k) == points[Len(points) + 1 - k]

\* DiagramUtils.getEdgeNameAngle, in degrees
getEdgeNameAngle(point1, point2) ==
    LET angle == getAngle(point1, point2)
    IN  IF Cos(angle) < 0 THEN angle - 180 ELSE angle

\* HalfEdgeUtils.getConverterStationPolyline; '' is the empty polyline
getConverterStationPolyline(halfEdge1, halfEdge2, converterStationWidth) ==
    LET points(halfEdge) ==
            LET middlePoint == AtEnd(halfEdge.edgePoints, 1)
                point1 == getPointAtDistance(middlePoint, AtEnd(halfEdge.edgePoints, 2),
                                             converterStationWidth \div 2)
                point2 == getPointAtDistance(point1, middlePoint, converterStationWidth)
            IN  <<point1, point2>>
    IN  IF halfEdge1.side # Null THEN FormattedPolyline(points(halfEdge1))
        ELSE IF halfEdge2.side # Null THEN FormattedPolyline(points(halfEdge2))
        ELSE <<>>

\* the attributes of the element of an edge as the server rendered them: the
\* points of its two polylines, its transformer circles or converter station
\* polyline, the translate() and the rotate() of its middle label
RenderedEdge ==
    [points1 |-> <<Point(6000, 0), Point(12000, 0)>>,
     points2 |-> <<Point(18000, 0), Point(12000, 0)>>,
     symbol |-> <<Point(10000, 0), Point(14000, 0)>>,
     labelTranslate |-> Point(12000, 0), labelRotate |-> 0]

\* redrawHalfEdge: the points of the polyline of the side
redrawHalfEdge(element, halfEdge) ==
    IF halfEdge.side = Null THEN element
    ELSE IF halfEdge.side = "1"
    THEN [element EXCEPT !.points1 = FormattedPolyline(halfEdge.edgePoints)]
    ELSE [element EXCEPT !.points2 = FormattedPolyline(halfEdge.edgePoints)]

\* redrawTransformerCircle: cx, cy of the circle
redrawTransformerCircle(halfEdge, oppositeHalfEdge) ==
    LET circleCenter ==
            IF halfEdge.side # Null
            THEN getPointAtDistance(AtEnd(halfEdge.edgePoints, 1), AtEnd(halfEdge.edgePoints, 2),
                                    -SvgParameters.transformerCircleRadius)
            ELSE IF oppositeHalfEdge.side # Null
            THEN getPointAtDistance(AtEnd(oppositeHalfEdge.edgePoints, 1),
                                    AtEnd(oppositeHalfEdge.edgePoints, 2),
                                    -2 * SvgParameters.transformerCircleRadius)
            ELSE Origin
    IN  IF IsNaNPoint(circleCenter) THEN NaNPoint ELSE FormattedPoint(circleCenter)

\* redrawTransformer of a two windings transformer
redrawTransformer(element, halfEdge1, halfEdge2) ==
    IF halfEdge1.side = Null /\ halfEdge2.side = Null THEN element
    ELSE [element EXCEPT !.symbol = <<redrawTransformerCircle(halfEdge1, halfEdge2),
                                      redrawTransformerCircle(halfEdge2, halfEdge1)>>]

\* redrawConverterStation
redrawConverterStation(element, halfEdge1, halfEdge2) ==
    [element EXCEPT !.symbol = getConverterStationPolyline(halfEdge1, halfEdge2, ConverterStationWidth)]

\* updateEdgeLabel
updateEdgeLabel(element, halfEdge1, halfEdge2) ==
    LET end1 == AtEnd(halfEdge1.edgePoints, 1)
        end2 == AtEnd(halfEdge2.edgePoints, 1)
        anchorPoint == IF halfEdge1.side # Null /\ halfEdge2.side # Null
                       THEN getMidPosition(end1, end2)
                       ELSE IF halfEdge1.side # Null THEN end1
                       ELSE IF halfEdge2.side # Null THEN end2
                       ELSE Origin
        edgeNameAngle ==
            IF IsNaNPoint(anchorPoint) THEN 0
            ELSE IF halfEdge1.side # Null /\ halfEdge2.side # Null
            THEN getEdgeNameAngle(anchorPoint, AtEnd(halfEdge2.edgePoints, 2))
            ELSE IF halfEdge1.side # Null
            THEN getEdgeNameAngle(anchorPoint, AtEnd(halfEdge1.edgePoints, 2))
            ELSE IF halfEdge2.side # Null
            THEN getEdgeNameAngle(AtEnd(halfEdge2.edgePoints, 2), anchorPoint)
            ELSE 0
    IN  [element EXCEPT
            !.labelTranslate = IF IsNaNPoint(anchorPoint) THEN NaNPoint ELSE FormattedPoint(anchorPoint),
            !.labelRotate = FormattedValue(edgeNameAngle)]

\* redrawBranchEdge on the element of the edge; edgeInfoMiddle tells whether
\* the edge has a middle label
redrawBranchEdgeElement(element, type, edgeInfoMiddle, halfEdge1, halfEdge2) ==
    LET edgeType == getEdgeType(type)
        e1 == redrawHalfEdge(redrawHalfEdge(element, halfEdge1), halfEdge2)
        e2 == IF isTransformerEdge(edgeType) THEN redrawTransformer(e1, halfEdge1, halfEdge2)
              ELSE IF edgeType \in {"HVDC_LINE_LCC", "HVDC_LINE_VSC"}
              THEN redrawConverterStation(e1, halfEdge1, halfEdge2)
              ELSE e1
    IN  IF edgeInfoMiddle THEN updateEdgeLabel(e2, halfEdge1, halfEdge2) ELSE e2

BranchTypes == {"LineEdge", "TwoWtEdge", "HvdcLineVscEdge", "HvdcLineLccEdge"}

\* redrawEdge of an edge between vl1 and vl2, alone or first of two parallel
\* edges, in a document that has both, one or none of the two nodes
RedrawBranchEdgeCall ==
    /\ callArgs = <<>>
    /\ \E type \in BranchTypes, edgeInfoMiddle \in BOOLEAN, forward \in BOOLEAN,
          bends \in GroupBendingPoints, groupedEdgesCount \in 1..2,
          nodePoints \in PartialNodePoints :
          LET edge == [GroupEdge(forward, "b1", "b3", bends) EXCEPT !.type = type]
              halfEdges == getHalfEdges(edge, 0, groupedEdgesCount, nodePoints)
          IN  /\ callArgs' = <<"redrawBranchEdge", type, edgeInfoMiddle, halfEdges,
                               forward, bends, groupedEdgesCount>>
              /\ callResult' = redrawBranchEdgeElement(RenderedEdge, type, edgeInfoMiddle,
                                                       halfEdges[1], halfEdges[2])
    /\ ViewerUnchanged

NextRedrawBranch == RedrawBranchEdgeCall

SpecRedrawBranch == InitGeometry /\ [][NextRedrawBranch]_vars

IsRedrawBranchCall == Len(callArgs) > 0 /\ callArgs[1] = "redrawBranchEdge"

\* C31: a redrawBranchEdge with both half-edges null leaves the rendered
\* attributes of the edge as they were: the points of the two polylines, the
\* transformer circles or the converter station polyline, and the position
\* and angle of the middle label.
C31_NullHalfEdgesNoOp ==
    (IsRedrawBranchCall /\ callArgs[4] = <<NoHalfEdge, NoHalfEdge>>) => callResult = RenderedEdge

\* the part of C31 the code keeps: the polylines and the transformer circles
C31_PolylinesAndTransformerKept ==
    (IsRedrawBranchCall /\ callArgs[4] = <<NoHalfEdge, NoHalfEdge>>) =>
        /\ callResult.points1 = RenderedEdge.points1
        /\ callResult.points2 = RenderedEdge.points2
        /\ callArgs[2] \in {"LineEdge", "TwoWtEdge"} => callResult.symbol = RenderedEdge.symbol
        /\ ~callArgs[3] => callResult.labelTranslate = RenderedEdge.labelTranslate

(***************************************************************************)
(* SvgUtils.computeVisibleArea. The quotients of the code are kept exact:  *)
(* the area it returns is [x, y, width, height] / den.                     *)
(***************************************************************************)
\* the undefined ViewBox
NoViewBox == [den |-> 0]

\* computeVisibleArea with the greater of the two scales
computeVisibleAreaOfMaxScale(vbox, containerWidth, containerHeight) ==
    IF vbox = NoViewBox THEN NoViewBox
    ELSE IF vbox.width = 0 \/ vbox.height = 0 \/ containerWidth = 0 \/ containerHeight = 0
    THEN NoViewBox
    ELSE LET den == 2 * containerWidth * containerHeight
             byHeight == containerWidth * vbox.height <= containerHeight * vbox.width
             dx == IF byHeight
                   THEN (containerWidth * vbox.height - vbox.width * containerHeight) * containerWidth
                   ELSE 0
             dy == IF byHeight THEN 0
                   ELSE (containerHeight * vbox.width - vbox.height * containerWidth) * containerHeight
         IN  [x |-> vbox.x * den - dx, y |-> vbox.y * den - dy,
              width |-> vbox.width * den + 2 * dx, height |-> vbox.height * den + 2 * dy,
              den |-> den]

\* scale is the least of containerWidth / vbox.width and containerHeight /
\* vbox.height; dx = (containerWidth / scale - vbox.width) / 2 is 0 when scale
\* is the first, and dy = (containerHeight / scale - vbox.height) / 2 is 0
\* when it is the second
computeVisibleArea(vbox, containerWidth, containerHeight) ==
    IF vbox = NoViewBox THEN NoViewBox
    ELSE IF vbox.width = 0 \/ vbox.height = 0 \/ containerWidth = 0 \/ containerHeight = 0
    THEN NoViewBox
    ELSE LET den == 2 * containerWidth * containerHeight
             byWidth == containerWidth * vbox.height <= containerHeight * vbox.width
             dx == IF byWidth THEN 0
                   ELSE (containerWidth * vbox.height - vbox.width * containerHeight) * containerWidth
             dy == IF byWidth
                   THEN (containerHeight * vbox.width - vbox.height * containerWidth) * containerHeight
                   ELSE 0
         IN  [x |-> vbox.x * den - dx, y |-> vbox.y * den - dy,
              width |-> vbox.width * den + 2 * dx, height |-> vbox.height * den + 2 * dy,
              den |-> den]

ViewBoxes ==
    {NoViewBox} \cup [x : {-10, 0, 2}, y : {0, 30}, width : {0, 2, 4, 20}, height : {0, 2, 3, 20}]

ContainerWidths == {0, 5, 10, 20}
ContainerHeights == {0, 5, 10, 30}

ComputeVisibleAreaCall ==
    /\ callArgs = <<>>
    /\ \E vbox \in ViewBoxes, containerWidth \in ContainerWidths,
          containerHeight \in ContainerHeights :
          /\ callArgs' = <<"computeVisibleArea", vbox, containerWidth, containerHeight>>
          /\ callResult' = computeVisibleArea(vbox, containerWidth, containerHeight)
    /\ ViewerUnchanged

NextVisibleArea == ComputeVisibleAreaCall

SpecVisibleArea == InitGeometry /\ [][NextVisibleArea]_vars

IsVisibleAreaCall == Len(callArgs) > 0 /\ callArgs[1] = "computeVisibleArea"

\* whether the call was given a viewbox and four dimensions that are not 0
NonZeroDimensions ==
    /\ callArgs[2] # NoViewBox
    /\ callArgs[2].width # 0 /\ callArgs[2].height # 0
    /\ callArgs[3] # 0 /\ callArgs[4] # 0

UpdateThresholdInverse == 100

\* the tolerance given to getElementsInViewbox by adaptiveZoomViewboxUpdate
ViewboxTolerance == 10000

\* container.getBoundingClientRect()
ContainerRect == [width |-> 4, height |-> 3]

\* the sides of the edges that have an edgeInfo in the metadata
EdgeInfoSides == [e \in Edges |-> IF e \in {"e1", "e3"} THEN <<"1", "2">> ELSE <<>>]

\* the fields and the part of the document that the level of detail and the
\* adaptive text zoom read and write, as one record
Display ==
    [zoomParameters |-> zoomParameters, zoomLevels |-> zoomLevels, legends |-> legends,
     viewBox |-> viewBox, previousMaxDisplayedSize |-> previousMaxDisplayedSize,
     lastZoomLevel |-> lastZoomLevel, innerSvgClass |-> innerSvgClass, sections |-> sections,
     nodes |-> nodes]

\* zoomLevels.sort((a, b) => b - a)
RECURSIVE SortedDescending(_)
SortedDescending(levels) ==
    IF levels = <<>> THEN <<>>
    ELSE LET rest == SortedDescending(Tail(levels))
             before == SelectSeq(rest, LAMBDA l : l >= Head(levels))
             after == SelectSeq(rest, LAMBDA l : l < Head(levels))
         IN  before \o <<Head(levels)>> \o after

getCurrentlyMaxDisplayedSize(d) ==
    IF d.viewBox.height > d.viewBox.width THEN d.viewBox.height ELSE d.viewBox.width

RECURSIVE getZoomLevel(_, _)
getZoomLevel(levels, maxDisplayedSize) ==
    IF levels = <<>> THEN 0
    ELSE IF maxDisplayedSize >= Head(levels) THEN Head(levels)
    ELSE getZoomLevel(Tail(levels), maxDisplayedSize)

\* getElementsInViewbox(tolerance).nodes
VisibleNodes(d, tolerance) ==
    LET area == computeVisibleArea(d.viewBox, ContainerRect.width, ContainerRect.height)
    IN  IF area = NoViewBox THEN {}
        ELSE {n \in Nodes :
                /\ d.nodes[n][1] * area.den >= area.x - tolerance * area.den
                /\ d.nodes[n][1] * area.den <= area.x + area.width + tolerance * area.den
                /\ d.nodes[n][2] * area.den >= area.y - tolerance * area.den
                /\ d.nodes[n][2] * area.den <= area.y + area.height + tolerance * area.den}

\* getElementsInViewbox(tolerance).edges
VisibleEdges(d, tolerance) ==
    {e \in Edges : /\ EdgeMetadata[e].node1 \in Nodes /\ EdgeMetadata[e].node2 \in Nodes
                   /\ \/ EdgeMetadata[e].node1 \in VisibleNodes(d, tolerance)
                      \/ EdgeMetadata[e].node2 \in VisibleNodes(d, tolerance)}

\* whether a section has a child of that id
HasChild(section, id) == \E i \in 1..Len(section) : section[i] = id

\* createLegendBox
createLegendBox(sec, textNode) ==
    IF HasChild(sec.legendBoxes, textNode) THEN sec
    ELSE [sec EXCEPT !.legendBoxes = Append(@, textNode)]

\* createLegendEdge: hasTextEdge looks for the id legendEdgeSvgId, the new
\* element has the id legendEdgeSvgId ?? ''
createLegendEdge(sec, node) ==
    IF node.legendEdgeSvgId # Null /\ HasChild(sec.legendEdges, node.legendEdgeSvgId) THEN sec
    ELSE [sec EXCEPT !.legendEdges =
            Append(@, IF node.legendEdgeSvgId # Null THEN node.legendEdgeSvgId ELSE "")]

\* createEdgesInfos of one edge: getOrCreateEdgeInfo of its sides when the
\* info of its first side is not in the section
RECURSIVE getOrCreateEdgeInfos(_, _, _)
getOrCreateEdgeInfos(infos, e, sides) ==
    IF sides = <<>> THEN infos
    ELSE getOrCreateEdgeInfos(IF HasChild(infos, <<e, Head(sides)>>) THEN infos
                              ELSE Append(infos, <<e, Head(sides)>>),
                              e, Tail(sides))

createEdgeInfos(sec, e) ==
    IF EdgeInfoSides[e] = <<>> \/ HasChild(sec.edgeInfos, <<e, EdgeInfoSides[e][1]>>) THEN sec
    ELSE [sec EXCEPT !.edgeInfos = getOrCreateEdgeInfos(@, e, EdgeInfoSides[e])]

RECURSIVE CreateLegends(_, _, _)
CreateLegends(sec, d, ns) ==
    IF ns = <<>> THEN sec
    ELSE LET node == d.legends[Head(ns)]
         IN  CreateLegends(IF node.legendSvgId \in TextNodes
                           THEN createLegendEdge(createLegendBox(sec, node.legendSvgId), node)
                           ELSE sec,
                           d, Tail(ns))

RECURSIVE createEdgesInfos(_, _)
createEdgesInfos(sec, es) ==
    IF es = <<>> THEN sec ELSE createEdgesInfos(createEdgeInfos(sec, Head(es)), Tail(es))

\* the nodes of a set in the order of diagramMetadata.nodes
NodeOrder == <<"vl1", "vl2", "vl3">>

adaptiveZoomViewboxUpdate(d, maxDisplayedSize) ==
    IF maxDisplayedSize > d.zoomParameters.adaptiveTextZoomThreshold
    THEN [d EXCEPT !.sections = [legendBoxes |-> <<>>, legendEdges |-> <<>>, edgeInfos |-> <<>>]]
    ELSE LET containedNodeList == SelectSeq(NodeOrder, LAMBDA n : n \in VisibleNodes(d, ViewboxTolerance))
             containedEdgeList == SelectEdges(EdgeOrder, VisibleEdges(d, ViewboxTolerance))
         IN  [d EXCEPT !.sections =
                createEdgesInfos(CreateLegends(@, d, containedNodeList), containedEdgeList)]

\* checkAndUpdateLevelOfDetail; the class nad-zoom-{level} of innerSvg is
\* <<level>>, and <<>> when it has no class
checkAndUpdateLevelOfDetail(d) ==
    LET maxDisplayedSize == getCurrentlyMaxDisplayedSize(d)
        previous == d.previousMaxDisplayedSize
        difference == IF previous > maxDisplayedSize THEN previous - maxDisplayedSize
                      ELSE maxDisplayedSize - previous
    IN  IF previous # 0 /\ UpdateThresholdInverse * difference < previous
        THEN d
        ELSE LET d1 == [d EXCEPT !.previousMaxDisplayedSize = maxDisplayedSize]
                 d2 == IF d.zoomParameters.enableAdaptiveTextZoom
                       THEN adaptiveZoomViewboxUpdate(d1, maxDisplayedSize)
                       ELSE d1
                 zoomLevel == getZoomLevel(d.zoomLevels, maxDisplayedSize)
             IN  IF d.zoomParameters.enableLevelOfDetail
                    /\ (d.innerSvgClass = <<>> \/ zoomLevel # d.lastZoomLevel)
                 THEN [d2 EXCEPT !.innerSvgClass = <<zoomLevel>>, !.lastZoomLevel = zoomLevel]
                 ELSE d2

\* whether init registered the observer of the viewBox
ObservesViewBox(parameters) ==
    parameters.enableLevelOfDetail \/ parameters.enableAdaptiveTextZoom

\* the constructor: zoomLevels sorted, init() with its first check when one
\* of the two options is on, then previousMaxDisplayedSize = 0; in init()
\* previousMaxDisplayedSize is undefined, and the comparison of the check,
\* with NaN, is false as it is for 0
ConstructedDisplay(parameters, levels, nodeLegends) ==
    LET d0 == [zoomParameters |-> parameters, zoomLevels |-> SortedDescending(levels),
               legends |-> nodeLegends, viewBox |-> RenderedViewBox,
               previousMaxDisplayedSize |-> 0, lastZoomLevel |-> 0, innerSvgClass |-> <<>>,
               sections |-> [RenderedSections EXCEPT !.legendEdges =
                                SelectSeq(@, LAMBDA id : \E n \in Nodes :
                                                nodeLegends[n].legendEdgeSvgId = id)],
               nodes |-> InitialNodePosition]
         d1 == IF ObservesViewBox(parameters) THEN checkAndUpdateLevelOfDetail(d0) ELSE d0
    IN  [d1 EXCEPT !.previousMaxDisplayedSize = 0]

MaxChildren == 3

ZoomParameters ==
    { [enableLevelOfDetail |-> o[1], enableAdaptiveTextZoom |-> o[2],
       adaptiveTextZoomThreshold |-> 600000] :
        o \in {<<TRUE, FALSE>>, <<FALSE, TRUE>>, <<TRUE, TRUE>>} }

\* the zoomLevels given in the options: the default ones, and lists in
\* another order or without 0
ZoomLevelLists ==
    { <<0, 200000, 440000, 500000, 600000, 800000, 1800000, 2400000, 4000000>>,
      <<500000, 0, 600000>>, <<600000, 1200000>> }

\* metadata whose node vl1 has a legendEdgeSvgId, and metadata where it has
\* none (the field is optional)
LegendsOfNodes ==
    { RenderedLegends, [RenderedLegends EXCEPT !["vl1"].legendEdgeSvgId = Null] }

\* the viewBox that a zoom or a pan gives to the svg
ZoomedViewBoxes ==
    { RenderedViewBox,
      [x |-> -300000, y |-> -300000, width |-> 600000, height |-> 450000],
      [x |-> -300000, y |-> -300000, width |-> 604000, height |-> 453000],
      [x |-> -300000, y |-> -300000, width |-> 596000, height |-> 447000],
      [x |-> -300000, y |-> -300000, width |-> 1200000, height |-> 900000],
      [x |-> 2000000, y |-> 2000000, width |-> 400000, height |-> 300000] }

DisplayFrame ==
    UNCHANGED <<toggleHovers, nodes, cfg, bendingPoints, busNode, edgesMap, selectedElement, draggedElement,
                draggedElementType, isDragging, initialPosition, straightenedElement,
                originalNodePosition, panning, bendLines, bendableLines, linePointIndexMap,
                transform, hoveredElement, hoveredElementPosition, isHoverCallbackUsed,
                debounced, calls, lastEvent, handled, bendSnapshot, textNodes, endTextEdge,
                originalTextNodeShift, originalTextNodeConnectionShift, textPosition,
                polylines, container, svgDraw, callArgs, callResult>>

ApplyDisplay(d) ==
    /\ previousMaxDisplayedSize' = d.previousMaxDisplayedSize
    /\ lastZoomLevel' = d.lastZoomLevel
    /\ innerSvgClass' = d.innerSvgClass
    /\ sections' = d.sections
    /\ UNCHANGED <<zoomParameters, zoomLevels, legends>>

InitZoom ==
    /\ cfg = Options(TRUE, TRUE, TRUE, TRUE, TRUE)
    /\ bendingPoints = NoBendingPoints
    /\ busNode = InitialBusNode
    /\ InitFields
    /\ container = <<"nad-viewer">>
    /\ svgDraw = TRUE
    /\ toggleHovers = <<>>
    /\ \E parameters \in ZoomParameters, levels \in ZoomLevelLists, nodeLegends \in LegendsOfNodes :
          \E d \in {ConstructedDisplay(parameters, levels, nodeLegends)} :
              /\ zoomParameters = d.zoomParameters
              /\ zoomLevels = d.zoomLevels
              /\ legends = d.legends
              /\ viewBox = d.viewBox
              /\ viewBoxObserved = FALSE
              /\ previousMaxDisplayedSize = d.previousMaxDisplayedSize
              /\ lastZoomLevel = d.lastZoomLevel
              /\ innerSvgClass = d.innerSvgClass
              /\ sections = d.sections

\* a zoom of panzoom (wheel, pinch): the viewBox attribute changes, which the
\* observer is told
Zoom(box) ==
    /\ box # viewBox
    /\ viewBox' = box
    /\ viewBoxObserved' = ObservesViewBox(zoomParameters)
    /\ ApplyDisplay(Display)
    /\ DisplayFrame

\* a pan of panzoom to a viewBox of the same size, with its panEnd
Pan(box) ==
    /\ box # viewBox /\ box.width = viewBox.width /\ box.height = viewBox.height
    /\ Len(sections.legendEdges) < MaxChildren
    /\ viewBox' = box
    /\ viewBoxObserved' = ObservesViewBox(zoomParameters)
    /\ LET d == [Display EXCEPT !.viewBox = box]
       IN  ApplyDisplay(IF zoomParameters.enableAdaptiveTextZoom
                        THEN adaptiveZoomViewboxUpdate(d, getCurrentlyMaxDisplayedSize(d))
                        ELSE d)
    /\ DisplayFrame

\* the debounced callback of the observer of the viewBox
ViewBoxObserver ==
    /\ viewBoxObserved
    /\ Len(sections.legendEdges) < MaxChildren
    /\ viewBoxObserved' = FALSE
    /\ ApplyDisplay(checkAndUpdateLevelOfDetail(Display))
    /\ UNCHANGED viewBox
    /\ DisplayFrame

NextZoom ==
    \/ \E box \in ZoomedViewBoxes : Zoom(box)
    \/ \E box \in ZoomedViewBoxes : Pan(box)
    \/ ViewBoxObserver

SpecZoom == InitZoom /\ [][NextZoom]_vars

\* the largest displayed dimension
DisplayedSize == IF viewBox.height > viewBox.width THEN viewBox.height ELSE viewBox.width

\* the greatest level of a list that is <= size, or 0
GreatestLevel(levels, size) ==
    LET below == {levels[i] : i \in 1..Len(levels)} \cap 0..size
    IN  IF below = {} THEN 0 ELSE CHOOSE l \in below : \A m \in below : m <= l

\* C32: with the level of detail enabled, once the observer of the viewBox
\* has run, the class of innerSvg is nad-zoom-{level} for the greatest
\* configured level that is <= the largest displayed dimension, or 0 when
\* there is none, and lastZoomLevel is that level.
C32_ZoomLevelOfSize ==
    (zoomParameters.enableLevelOfDetail /\ ~viewBoxObserved) =>
        /\ innerSvgClass = <<GreatestLevel(zoomLevels, DisplayedSize)>>
        /\ <<lastZoomLevel>> = innerSvgClass

\* what holds in every state: the class is the level of the size of the last
\* check that was not skipped, and lastZoomLevel is the level of the class
C32_ZoomLevelOfLastCheck ==
    zoomParameters.enableLevelOfDetail =>
        /\ <<lastZoomLevel>> = innerSvgClass
        /\ previousMaxDisplayedSize # 0 =>
              innerSvgClass = <<GreatestLevel(zoomLevels, previousMaxDisplayedSize)>>
        /\ (~viewBoxObserved /\ previousMaxDisplayedSize # 0) =>
              UpdateThresholdInverse * (IF DisplayedSize > previousMaxDisplayedSize
                                        THEN DisplayedSize - previousMaxDisplayedSize
                                        ELSE previousMaxDisplayedSize - DisplayedSize)
                 < previousMaxDisplayedSize \/ DisplayedSize = previousMaxDisplayedSize

\* the number of children of a section that have that id
CountOf(section, id) == Cardinality({i \in 1..Len(section) : section[i] = id})

\* C33: with the adaptive text zoom enabled, once the viewbox update has
\* been handled: when the largest displayed dimension exceeds the threshold
\* the three sections are empty; otherwise every node in view that has a
\* text node has exactly one legend box and one legend edge; and no section
\* has two children of the same id.
C33_AdaptiveTextZoom ==
    (zoomParameters.enableAdaptiveTextZoom /\ ~viewBoxObserved) =>
        /\ IF DisplayedSize > zoomParameters.adaptiveTextZoomThreshold
           THEN sections = [legendBoxes |-> <<>>, legendEdges |-> <<>>, edgeInfos |-> <<>>]
           ELSE \A n \in VisibleNodes(Display, ViewboxTolerance) :
                   legends[n].legendSvgId \in TextNodes =>
                      /\ CountOf(sections.legendBoxes, legends[n].legendSvgId) = 1
                      /\ CountOf(sections.legendEdges,
                                 IF legends[n].legendEdgeSvgId # Null
                                 THEN legends[n].legendEdgeSvgId ELSE "") = 1
        /\ \A name \in {"legendBoxes", "legendEdges", "edgeInfos"} :
              \A i, j \in 1..Len(sections[name]) :
                 sections[name][i] = sections[name][j] => i = j

(***************************************************************************)
(* The connection shift of a dragged legend box                            *)
(***************************************************************************)
\* a left release has just ended the drag of a legend box and told it to
\* the move-text-node callback
TextNodeDragEnds ==
    /\ lastEvent'.name = "mouseup"
    /\ draggedElementType = "TEXT_NODE"
    /\ isDragging
    /\ Len(calls') = Len(calls) + 1
    /\ calls'[Len(calls')].cb = "onMoveTextNodeCallback"

\* the end of the legend edge of a legend box for the position that its
\* metadata give it, minus the position of its node
ConnectionShiftOf(textNode, nodePositions, textNodeMetadata) ==
    LET node == nodePositions[TextNodeMetadata[textNode].vlNode]
        position == Point(node[1] + textNodeMetadata[textNode].shiftX,
                          node[2] + textNodeMetadata[textNode].shiftY)
        end == getTextEdgeEnd(position, node, LayoutParameters.textNodeEdgeConnectionYShift,
                              getTextNodeSize(textNode).height, getTextNodeSize(textNode).width)
    IN  Point(Round(end[1] - node[1]), Round(end[2] - node[2]))

\* C35: when the drag of a legend box ends, the connection shift in the
\* metadata of the text node and the one given to the move-text-node
\* callback are the end of the legend edge computed for the final position
\* of the legend box minus the position of its node, whatever the number of
\* pointer moves of the drag.
C35_ConnectionShiftOfFinalPosition ==
    [][TextNodeDragEnds =>
        LET textNode == calls'[Len(calls')].textNodeId
            shift == ConnectionShiftOf(textNode, nodes', textNodes')
        IN  /\ textNodes'[textNode].connectionShiftX = shift[1]
            /\ textNodes'[textNode].connectionShiftY = shift[2]
            /\ calls'[Len(calls')].connectionShiftX = shift[1]
            /\ calls'[Len(calls')].connectionShiftY = shift[2]]_vars

\* what holds: the callback is given the connection shift of the metadata,
\* which the last pointer move computed from the end of the legend edge of
\* the move before it, (0, 0) at the first move of the drag
C35_ConnectionShiftOfMetadata ==
    [][TextNodeDragEnds =>
        LET textNode == calls'[Len(calls')].textNodeId
        IN  /\ calls'[Len(calls')].connectionShiftX = textNodes'[textNode].connectionShiftX
            /\ calls'[Len(calls')].connectionShiftY = textNodes'[textNode].connectionShiftY
            /\ UNCHANGED <<textNodes, endTextEdge>>]_vars

(***************************************************************************)
(* The toggle-hover notifications, with their history                      *)
(***************************************************************************)
\* SvgUtils.getRightClickableFrom
getRightClickableFrom(element) ==
    IF getDraggableFrom(element) # Null \/ getHoverableFrom(element) # Null THEN element ELSE Null

\* no ElementData (undefined)
NoElementData == [svgId |-> Null]

\* MetadataUtils.getRightClickableElementData of an element and its
\* SvgUtils.getElementType
getRightClickableElementData(element) ==
    IF element \in Nodes /\ FindNode(element) # Null
    THEN [svgId |-> element, equipmentId |-> NodeEquipmentId[element], type |-> "VOLTAGE_LEVEL"]
    ELSE IF isTextNode(element)
    THEN [svgId |-> element, equipmentId |-> TextNodeMetadata[element].equipmentId,
          type |-> "TEXT_NODE"]
    ELSE IF element \in Edges
    THEN [svgId |-> element, equipmentId |-> EdgeMetadata[element].equipmentId,
          type |-> getStringEdgeType(element)]
    ELSE NoElementData

onMouseRightDown(s, target, mousePosition) ==
    LET elementData == getRightClickableElementData(getRightClickableFrom(target))
        hoverData == IF elementData = NoElementData /\ s.hoveredElement # Null
                        /\ existsNearbyHoveredElement(s, mousePosition)
                     THEN getRightClickableElementData(getRightClickableFrom(s.hoveredElement))
                     ELSE elementData
    IN  IF hoverData = NoElementData THEN s
        ELSE [resetHoverCallback(s) EXCEPT !.calls =
                IF cfg.onRightClickCallback
                THEN Append(@, [cb |-> "onRightClickCallback", svgId |-> hoverData.svgId,
                                equipmentId |-> hoverData.equipmentId,
                                equipmentType |-> hoverData.type, mousePosition |-> mousePosition])
                ELSE @]

\* init registers the right mousedown only then
RightClickHandlerRegistered == svgDraw /\ cfg.onRightClickCallback /\ cfg.hasMetadata

\* the hovered flags of the calls of onToggleHoverCallback among calls
RECURSIVE Delivered(_)
Delivered(callsMade) ==
    IF callsMade = <<>> THEN <<>>
    ELSE IF Head(callsMade).cb = "onToggleHoverCallback"
    THEN <<Head(callsMade).hovered>> \o Delivered(Tail(callsMade))
    ELSE Delivered(Tail(callsMade))

\* an event handled with the history of the toggle-hover calls kept
HoverEvent(event, s) ==
    /\ Apply(s)
    /\ bendSnapshot' = NextSnapshot(s, event.name)
    /\ toggleHovers' = toggleHovers \o Delivered(s.calls)
    /\ Handled(event)
    /\ UNCHANGED <<cfg, displayVars, busNode, edgesMap, container, svgDraw, callArgs, callResult>>

ToggleOver(target, position) ==
    /\ handled < MaxEvents
    /\ HoverEvent(Event("mouseover", target, FALSE, position),
                  IF HoverHandlersRegistered THEN onHover(St, target, position) ELSE St)

ToggleMove(target, position) ==
    /\ handled < MaxEvents
    /\ HoverEvent(Event("mousemove", target, FALSE, position),
                  IF PointerHandlersRegistered THEN onMouseMove(St, target, position) ELSE St)

ToggleRightDown(target, position) ==
    /\ handled < MaxEvents
    /\ HoverEvent(Event("rightdown", target, FALSE, position),
                  IF RightClickHandlerRegistered THEN onMouseRightDown(St, target, position) ELSE St)

\* the 250 ms of the debounce are over
ToggleDebounce ==
    /\ handled < MaxEvents
    /\ debounced # <<>>
    /\ HoverEvent(Event("debounce", Null, FALSE, NoPoint),
                  [St EXCEPT !.debounced = <<>>,
                             !.calls = IF cfg.onToggleHoverCallback
                                       THEN <<ToggleHoverCall(debounced[1])>> ELSE <<>>])

ToggleConfigs ==
    { Options(TRUE, TRUE, TRUE, TRUE, TRUE),
      [Options(TRUE, TRUE, TRUE, TRUE, TRUE) EXCEPT !.onRightClickCallback = TRUE] }

InitToggle ==
    /\ cfg \in ToggleConfigs
    /\ bendingPoints = NoBendingPoints
    /\ busNode = InitialBusNode
    /\ InitViewer

NextToggle ==
    \/ \E target \in HoverOverTargets, position \in Positions : ToggleOver(target, position)
    \/ \E target \in HoverOverTargets, position \in Positions : ToggleMove(target, position)
    \/ \E target \in HoverOverTargets, position \in Positions : ToggleRightDown(target, position)
    \/ ToggleDebounce

SpecToggle == InitToggle /\ [][NextToggle]_vars

\* C36: a toggle-hover(false) is given to the callback only when a
\* toggle-hover(true) has been given to it since the toggle-hover(false)
\* before it, or since the start; and no toggle-hover(true) that was
\* scheduled before a toggle-hover(false) is still to be delivered after it.
C36_ToggleHoverPaired ==
    /\ [](\A i \in 1..Len(toggleHovers) :
            ~toggleHovers[i] => (i > 1 /\ toggleHovers[i - 1]))
    /\ [][(Len(toggleHovers') > Len(toggleHovers) /\ ~toggleHovers'[Len(toggleHovers')])
            => debounced' = <<>>]_vars

\* what holds: the toggle-hover(false) cancels the scheduled call, and
\* follows that a toggle-hover(true) was scheduled, delivered or not
C36_ToggleHoverFalseCancels ==
    [][(Len(toggleHovers') > Len(toggleHovers) /\ ~toggleHovers'[Len(toggleHovers')])
        => (debounced' = <<>> /\ isHoverCallbackUsed /\ ~isHoverCallbackUsed')]_vars

(***************************************************************************)
(* The callbacks of a left release                                         *)
(***************************************************************************)
ReleaseCallbacks ==
    {"onSelectNodeCallback", "onMoveNodeCallback", "onMoveTextNodeCallback", "onBendLineCallback"}

\* the calls of the four callbacks among the calls of an event
ReleaseCalls(callsMade) == SelectSeq(callsMade, LAMBDA c : c.cb \in ReleaseCallbacks)

\* the callback that tells the end of the drag of an element of that type
DragCallbackOf(type) ==
    CASE type = "BENT_SQUARE" -> "onBendLineCallback"
      [] type = "TEXT_NODE" -> "onMoveTextNodeCallback"
      [] type = "VOLTAGE_LEVEL_NODE" -> "onMoveNodeCallback"

\* the element that a call of one of the callbacks is about
ElementOfCall(c) == IF c.cb = "onMoveTextNodeCallback" THEN c.textNodeId ELSE c.svgId

\* the element that the end of the drag of the dragged element is told for
ElementOfDrag ==
    IF draggedElementType = "BENT_SQUARE" THEN linePointIndexMap[draggedElement].edgeId
    ELSE draggedElement

\* C37: a left release calls at most one of the select-node, move-node,
\* move-text-node and bend-line callbacks; the release of a press on a
\* selectable node that was not dragged calls select-node once, for that
\* node; the release that ends a drag calls the move or bend callback of
\* the dragged element, when there is one, and never select-node.
C37_OneCallbackPerRelease ==
    [][(lastEvent'.name = "mouseup" /\ PointerHandlersRegistered) =>
        /\ Len(ReleaseCalls(calls')) <= 1
        /\ (~isDragging /\ selectedElement # Null /\ cfg.onSelectNodeCallback) =>
              /\ Len(ReleaseCalls(calls')) = 1
              /\ calls'[1].cb = "onSelectNodeCallback"
              /\ calls'[1].svgId = selectedElement
        /\ isDragging =>
              /\ \A i \in 1..Len(calls') : calls'[i].cb # "onSelectNodeCallback"
              /\ cfg[DragCallbackOf(draggedElementType)] =>
                    /\ Len(ReleaseCalls(calls')) = 1
                    /\ calls'[1].cb = DragCallbackOf(draggedElementType)
                    /\ ElementOfCall(calls'[1]) = ElementOfDrag]_vars

\* what holds: the same, for the drag of a bend handle as long as the handle
\* is in linePointIndexMap at the release
C37_OneCallbackWhileHandleKnown ==
    [][(lastEvent'.name = "mouseup" /\ PointerHandlersRegistered) =>
        /\ Len(ReleaseCalls(calls')) <= 1
        /\ (~isDragging /\ selectedElement # Null /\ cfg.onSelectNodeCallback) =>
              /\ Len(ReleaseCalls(calls')) = 1
              /\ calls'[1].cb = "onSelectNodeCallback"
              /\ calls'[1].svgId = selectedElement
        /\ isDragging =>
              /\ \A i \in 1..Len(calls') : calls'[i].cb # "onSelectNodeCallback"
              /\ ( /\ cfg[DragCallbackOf(draggedElementType)]
                   /\ draggedElementType = "BENT_SQUARE" =>
                          draggedElement \in DOMAIN linePointIndexMap ) =>
                    /\ Len(ReleaseCalls(calls')) = 1
                    /\ calls'[1].cb = DragCallbackOf(draggedElementType)
                    /\ ElementOfCall(calls'[1]) = ElementOfDrag]_vars

(***************************************************************************)
(* The annuli of the buses of a voltage level                              *)
(***************************************************************************)
\* the radii of the bus of index i are ordered, and its annulus starts
\* interAnnulusSpace after the end of the one of the bus of index i - 1
RadiiOrdered(radii, i) ==
    /\ 0 <= radii[i + 1].busInnerRadius
    /\ radii[i + 1].busInnerRadius < radii[i + 1].busOuterRadius
    /\ radii[i + 1].busOuterRadius <= radii[i + 1].voltageLevelRadius
    /\ i >= 1 => radii[i + 1].busInnerRadius - radii[i].busOuterRadius
                    = SvgParameters.interAnnulusSpace

\* C38: with the default circle radius 30 and inter-annulus space 5, for
\* every nbNeighbours n >= 0 and every index i in 0..n, getNodeRadius
\* gives 0 <= busInnerRadius < busOuterRadius <= voltageLevelRadius, and
\* busInnerRadius(i) - busOuterRadius(i - 1) = interAnnulusSpace for i >= 1.
C38_RadiiOrdered ==
    (IsNodeRadiusCall /\ ~callArgs[3]) =>
        \A i \in 0..callArgs[2] : RadiiOrdered(callResult, i)

\* what holds: the same up to nbNeighbours = 10, where unitaryRadius =
\* 60 / (n + 1) is still more than the inter-annulus space
C38_RadiiOrderedUpToTen ==
    (IsNodeRadiusCall /\ ~callArgs[3] /\ callArgs[2] <= 10) =>
        \A i \in 0..callArgs[2] : RadiiOrdered(callResult, i)

(***************************************************************************)
(* Redrawing the buses of a voltage level                                  *)
(***************************************************************************)
\* the svgId of the buses of index 0, 1, 2 of the voltage level "vl"
VlBusIds == <<"b0", "b1", "b2">>

\* the entry of diagramMetadata.busNodes of the bus of index i among k
VlBus(i, k) == [svgId |-> VlBusIds[i + 1], index |-> i, nbNeighbours |-> k - 1, vlNode |-> "vl"]

\* diagramMetadata.busNodes of the voltage level, in the order of the metadata
VlBusLists ==
    { <<VlBus(0, 1)>>, <<VlBus(0, 2), VlBus(1, 2)>>, <<VlBus(1, 2), VlBus(0, 2)>>,
      <<VlBus(0, 3), VlBus(1, 3), VlBus(2, 3)>>, <<VlBus(2, 3), VlBus(0, 3), VlBus(1, 3)>> }

\* the edges of the voltage level that the metadata may hold: edges to
\* another node "o" from each bus, by either side; a loop between two buses
\* and a loop on one bus; an edge whose bus is unknown
VlEdgeOrder ==
    << [svgId |-> "ea", node1 |-> "vl", node2 |-> "o", busNode1 |-> "b0", busNode2 |-> "ob"],
       [svgId |-> "eb", node1 |-> "o", node2 |-> "vl", busNode1 |-> "ob", busNode2 |-> "b1"],
       [svgId |-> "ec", node1 |-> "vl", node2 |-> "o", busNode1 |-> "b2", busNode2 |-> "ob"],
       [svgId |-> "el", node1 |-> "vl", node2 |-> "vl", busNode1 |-> "b0", busNode2 |-> "b1"],
       [svgId |-> "es", node1 |-> "vl", node2 |-> "vl", busNode1 |-> "b0", busNode2 |-> "b0"],
       [svgId |-> "eu", node1 |-> "vl", node2 |-> "o", busNode1 |-> Null, busNode2 |-> "ob"] >>

VlEdgeIds == {VlEdgeOrder[i].svgId : i \in 1..Len(VlEdgeOrder)}

\* DOM: the angle, in degrees, of the first two points of the element of
\* each half of the edges (getPolylineAngle, getPathAngle of a loop)
HalfEdgeAngle ==
    [e \in VlEdgeIds |->
        CASE e = "ea" -> <<10, 190>>
          [] e = "eb" -> <<280, 100>>
          [] e = "ec" -> <<200, 20>>
          [] e = "el" -> <<300, 330>>
          [] e = "es" -> <<40, 70>>
          [] e = "eu" -> <<250, 70>>]

\* diagramMetadata.injections of the voltage level, with the angle of the
\* polyline of each
VlInjectionLists ==
    { <<>>,
      <<[svgId |-> "i0", busNodeId |-> "b0", vlNodeId |-> "vl", angle |-> 150]>>,
      <<[svgId |-> "i1", busNodeId |-> "b1", vlNodeId |-> "vl", angle |-> 160]>> }

\* edgeAngles1 or edgeAngles2 as onDragStart leaves it
NoEdgeAngles == [e \in VlEdgeIds |-> <<>>]

\* edgeAngles1 (side 1) or edgeAngles2 (side 2) after redrawHalfEdge has
\* stored the angle of the half-edges of that side
StoredEdgeAngles(side) == [e \in VlEdgeIds |-> <<HalfEdgeAngle[e][side]>>]

\* busNodeEdges.get(busNodeId) ?? [] after addBusNodeEdges(nodeId, edges, busNodeEdges)
RECURSIVE addBusNodeEdges(_, _, _)
addBusNodeEdges(nodeId, edges, busNodeId) ==
    IF edges = <<>> THEN <<>>
    ELSE LET edge == Head(edges)
             added == IF edge.node1 = edge.node2
                      THEN (IF edge.busNode1 = busNodeId THEN <<edge>> ELSE <<>>)
                            \o (IF edge.busNode2 = busNodeId THEN <<edge>> ELSE <<>>)
                      ELSE IF (IF edge.node1 = nodeId THEN edge.busNode1 ELSE edge.busNode2)
                                = busNodeId
                      THEN <<edge>>
                      ELSE <<>>
         IN  added \o addBusNodeEdges(nodeId, Tail(edges), busNodeId)

\* injectionsEdges.get(busNodeId) ?? [] after addInjectionEdges
addInjectionEdges(vlNodeId, injections, busNodeId) ==
    SelectSeq(injections, LAMBDA inj : inj.vlNodeId = vlNodeId /\ inj.busNodeId = busNodeId)

\* traversingBusEdgesAngles.sort((a, b) => a - b)
RECURSIVE SortAngles(_)
SortAngles(angles) ==
    IF angles = <<>> THEN <<>>
    ELSE LET rest == SortAngles(Tail(angles))
         IN  SelectSeq(rest, LAMBDA a : a <= Head(angles)) \o <<Head(angles)>>
                \o SelectSeq(rest, LAMBDA a : a > Head(angles))

\* getEdgeAngle of the edges of a bus, one after the other: the angle is
\* read in edgeAngles1 or edgeAngles2, and taken from the element of the
\* half-edge and stored when it is not there; acc holds the viewer's two
\* maps and traversingBusEdgesAngles
RECURSIVE AddEdgeAngles(_, _, _)
AddEdgeAngles(acc, bus, busEdges) ==
    IF busEdges = <<>> THEN acc
    ELSE LET edge == Head(busEdges)
             side == IF bus.svgId = edge.busNode1 THEN 1 ELSE 2
             stored == IF side = 1 THEN acc.edgeAngles1[edge.svgId] ELSE acc.edgeAngles2[edge.svgId]
             angle == IF stored # <<>> THEN stored[1] ELSE HalfEdgeAngle[edge.svgId][side]
             acc1 == IF side = 1 THEN [acc EXCEPT !.edgeAngles1[edge.svgId] = <<angle>>]
                     ELSE [acc EXCEPT !.edgeAngles2[edge.svgId] = <<angle>>]
         IN  AddEdgeAngles([acc1 EXCEPT !.angles = Append(@, angle)], bus, Tail(busEdges))

\* getInjectionEdgeAngle of the injections of a bus
RECURSIVE AddInjectionAngles(_, _)
AddInjectionAngles(acc, busInjections) ==
    IF busInjections = <<>> THEN acc
    ELSE AddInjectionAngles([acc EXCEPT !.angles = Append(@, Head(busInjections).angle)],
                            Tail(busInjections))

\* redrawBusNode: the d of the bus element is getFragmentedAnnulusPath of
\* the sorted angles closed by the first one plus a turn, and of the radii
redrawBusNode(busMetadata, traversingBusEdgesAngles) ==
    LET sorted == SortAngles(traversingBusEdgesAngles)
    IN  [angles |-> Append(sorted, sorted[1] + 360),
         radius |-> getNodeRadiusOf(busMetadata.nbNeighbours, busMetadata.index, FALSE)]

\* the loop of redrawVoltageLevelNode over sortedBusNodes, from index on
RECURSIVE RedrawBusNodes(_, _, _, _, _)
RedrawBusNodes(sortedBusNodes, index, edges, injections, acc) ==
    IF index >= Len(sortedBusNodes) THEN acc
    ELSE LET bus == sortedBusNodes[index + 1][1]
             acc1 == IF index > 0 /\ acc.angles # <<>>
                     THEN [acc EXCEPT !.angles = SortAngles(@),
                                      !.paths[bus.index] = <<redrawBusNode(bus, acc.angles)>>]
                     ELSE acc
             acc2 == AddEdgeAngles(acc1, bus, addBusNodeEdges("vl", edges, bus.svgId))
             acc3 == AddInjectionAngles(acc2, addInjectionEdges("vl", injections, bus.svgId))
         IN  RedrawBusNodes(sortedBusNodes, index + 1, edges, injections, acc3)

\* redrawVoltageLevelNode of the node "vl", which is not a boundary node:
\* paths[i] is <<>> when the element of the bus of index i is left as it
\* was, and else the path it is given
redrawVoltageLevelNode(busNodes, edges, injections, edgeAngles1, edgeAngles2) ==
    LET acc == [angles |-> <<>>, edgeAngles1 |-> edgeAngles1, edgeAngles2 |-> edgeAngles2,
                paths |-> [i \in 0..(Len(busNodes) - 1) |-> <<>>]]
    IN  IF Len(busNodes) <= 1 THEN acc
        ELSE RedrawBusNodes(getSortedBusNodes(busNodes), 0, edges, injections, acc)

\* the edges of a list whose svgId is in a set, in the order of the list
VlEdges(keep) == SelectSeq(VlEdgeOrder, LAMBDA edge : edge.svgId \in keep)

RedrawVoltageLevelNodeCall ==
    /\ callArgs = <<>>
    /\ \E busNodes \in VlBusLists, keep \in SUBSET VlEdgeIds, injections \in VlInjectionLists,
          stored \in BOOLEAN :
          /\ callArgs' = <<"redrawVoltageLevelNode", busNodes, VlEdges(keep), injections, stored>>
          /\ callResult' =
                redrawVoltageLevelNode(busNodes, VlEdges(keep), injections,
                                       IF stored THEN StoredEdgeAngles(1) ELSE NoEdgeAngles,
                                       IF stored THEN StoredEdgeAngles(2) ELSE NoEdgeAngles)
    /\ ViewerUnchanged

NextRedrawVoltageLevel == RedrawVoltageLevelNodeCall

SpecRedrawVoltageLevel == InitGeometry /\ [][NextRedrawVoltageLevel]_vars

IsRedrawVoltageLevelCall == Len(callArgs) > 0 /\ callArgs[1] = "redrawVoltageLevelNode"

\* the angles at which the edges and the injections of a list are attached
\* to the bus busNodeId of the voltage level "vl"
AttachmentAngles(edges, injections, busNodeId) ==
    {HalfEdgeAngle[edges[j].svgId][1] :
        j \in {j \in 1..Len(edges) : edges[j].node1 = "vl" /\ edges[j].busNode1 = busNodeId}}
    \cup {HalfEdgeAngle[edges[j].svgId][2] :
        j \in {j \in 1..Len(edges) : edges[j].node2 = "vl" /\ edges[j].busNode2 = busNodeId}}
    \cup {injections[j].angle :
        j \in {j \in 1..Len(injections) : injections[j].busNodeId = busNodeId}}

\* the attachment angles of the buses of index < i
InnerAttachmentAngles(edges, injections, i) ==
    UNION {AttachmentAngles(edges, injections, VlBusIds[h + 1]) : h \in 0..(i - 1)}

\* C39: when a voltage level of k > 1 buses is redrawn, the annulus of the
\* bus of index i >= 1 is fragmented at exactly the attachment angles of the
\* edges and injections of the buses of index < i; the bus of index 0 is
\* never redrawn, a bus for which there is no such angle is not redrawn, and
\* a voltage level of one bus is not redrawn at all.
C39_BusAnnulusFragments ==
    IsRedrawVoltageLevelCall =>
        LET k == Len(callArgs[2])
            paths == callResult.paths
        IN  /\ paths[0] = <<>>
            /\ \A i \in 1..(k - 1) :
                  LET inner == InnerAttachmentAngles(callArgs[3], callArgs[4], i)
                  IN  IF inner = {} THEN paths[i] = <<>>
                      ELSE /\ paths[i] # <<>>
                           /\ {paths[i][1].angles[j] : j \in 1..(Len(paths[i][1].angles) - 1)}
                                = inner

\* what holds: the same when no loop has its two ends on the same bus
C39_FragmentsWithoutLoopOnOneBus ==
    (IsRedrawVoltageLevelCall
        /\ \A j \in 1..Len(callArgs[3]) :
              callArgs[3][j].node1 = callArgs[3][j].node2 =>
                 callArgs[3][j].busNode1 # callArgs[3][j].busNode2)
    => LET k == Len(callArgs[2])
           paths == callResult.paths
       IN  /\ paths[0] = <<>>
           /\ \A i \in 1..(k - 1) :
                 LET inner == InnerAttachmentAngles(callArgs[3], callArgs[4], i)
                 IN  IF inner = {} THEN paths[i] = <<>>
                     ELSE /\ paths[i] # <<>>
                          /\ {paths[i][1].angles[j] : j \in 1..(Len(paths[i][1].angles) - 1)}
                               = inner
                          /\ paths[i][1].angles[Len(paths[i][1].angles)]
                               = paths[i][1].angles[1] + 360
====
